---- MODULE Spec2Model ----
(***************************************************************************)
(* Model of the telemetry bridges of pylontech-bms-mqtt:                   *)
(*   - Publisher.publish (rate limit, force refresh, hysteresis, cache)    *)
(*     of pylon_can2mqtt.py, pylon_rs485_monitor.py, deye_modbus2mqtt.py   *)
(*   - the supervisor loop of the CAN bridge (pylon_can2mqtt.py main)      *)
(*                                                                         *)
(* Units.  Time is counted in ticks of 0.5 s (the smallest min_interval    *)
(* any call site passes, MIN_INTERVAL_S_LIMITS).  Numeric values are       *)
(* counted in thousandths: the Python float nearest to m/1000 is written   *)
(* m.  The rounding error of that float is computed where the code's       *)
(* result depends on it (HystGE).                                          *)
(***************************************************************************)
EXTENDS Integers, Sequences, FiniteSets, TLC

(***************************************************************************)
(* Program constants (ticks of 0.5 s, thousandths)                         *)
(***************************************************************************)
FORCE_PUBLISH_INTERVAL_S == 120
MIN_INTERVAL_S_DEFAULT == 2
MIN_INTERVAL_S_LIMITS == 1
MIN_INTERVAL_S_SOC == 10
VOLT_HYST_V == 10
CAN_STALE_TIMEOUT_S == 60
heartbeat_period == 120
RecvTimeout == 2
RetrySleep == 10

TEMP_HYST_C == 200
TEMP_MIN_C == -10000
TEMP_MAX_C == 50000
CELL_V_MIN_V == 2000
CELL_V_MAX_V == 4500
PACK_V_MIN_V == 30000
PACK_V_MAX_V == 65000
I_MAX_ABS_A == 500000

(***************************************************************************)
(* Bounds of the model                                                     *)
(***************************************************************************)
\* wall-clock reading (time.time()) when the bridge starts, in ticks
Epoch == 1000
\* the clock is read within Jitter ticks after the start and after each
\* multiple of the force interval
Jitter == 2
\* CAN bridge: the bus delivers frames for BurstLen ticks after the start and
\* again for BurstLen ticks once the stale timeout has passed
BurstLen == 2
\* CAN bridge: the clock is observed for Horizon ticks after the second burst
Horizon == 2

(***************************************************************************)
(* Values.  A Python value offered to publish is an int, a float or a str. *)
(* The canonical (stored) form is a float or a str; None is the result of  *)
(* dict.get on a missing key.                                              *)
(***************************************************************************)
PyInt(n) == [k |-> "int", m |-> n * 1000, s |-> ""]
PyFloat(m) == [k |-> "float", m |-> m, s |-> ""]
PyStr(s) == [k |-> "str", m |-> 0, s |-> s]
None == [k |-> "none", m |-> 0, s |-> ""]

\* hyst=None, or hyst=h/1000
NoHyst == [some |-> FALSE, h |-> 0]
Hyst(h) == [some |-> TRUE, h |-> h]

\* float(s) for the strings of the model: succeeds on numerals only
FloatParses(s) == s \in {"5", "5.0"}
FloatOfStr(s) == 5000

\* isinstance(x, float) on a canonical value
IsFloat(x) == x.k = "float"

(***************************************************************************)
(* str(value): the payload handed to the broker client                     *)
(***************************************************************************)
DigitStr(d) ==
    CASE d = 0 -> "0" [] d = 1 -> "1" [] d = 2 -> "2" [] d = 3 -> "3"
      [] d = 4 -> "4" [] d = 5 -> "5" [] d = 6 -> "6" [] d = 7 -> "7"
      [] d = 8 -> "8" [] OTHER -> "9"

RECURSIVE NatStr(_)
NatStr(n) == IF n < 10 THEN DigitStr(n) ELSE NatStr(n \div 10) \o DigitStr(n % 10)

\* the fraction digits of a float with at most three decimals, as repr prints them
FracStr(f) ==
    IF f % 1000 = 0 THEN "0"
    ELSE IF f % 100 = 0 THEN DigitStr(f \div 100)
    ELSE IF f % 10 = 0 THEN DigitStr(f \div 100) \o DigitStr((f \div 10) % 10)
    ELSE DigitStr(f \div 100) \o DigitStr((f \div 10) % 10) \o DigitStr(f % 10)

\* str of a non-negative int or float, or of a str
PyStrMag(value) ==
    CASE value.k = "int" -> NatStr(value.m \div 1000)
      [] value.k = "float" -> NatStr(value.m \div 1000) \o "." \o FracStr(value.m % 1000)
      [] OTHER -> value.s

PyStrOf(value) ==
    IF value.m < 0 THEN "-" \o PyStrMag([value EXCEPT !.m = -value.m])
    ELSE PyStrMag(value)

(***************************************************************************)
(* IEEE-754 double arithmetic of  abs(a - b) >= h  for a = A/1000,         *)
(* b = B/1000, h = H/1000 (A, B >= 0, H > 0).  float(X/1000) is            *)
(* M * 2^-p with p = 52 - floor(log2(X/1000)) and M the integer nearest    *)
(* to X * 2^p / 1000; RErr(X) = 1000*M - X*2^p is its rounding error.      *)
(* When |A - B| # H the rounding errors (below 1e-12) cannot change the    *)
(* comparison; when |A - B| = H the result is decided by them.             *)
(***************************************************************************)
RECURSIVE Exp2(_)
Exp2(X) == IF X >= 2000 THEN 1 + Exp2(X \div 2)
           ELSE IF X < 1000 THEN Exp2(2 * X) - 1
           ELSE 0

RECURSIVE Pow2Mod(_, _)
Pow2Mod(p, m) == IF p = 0 THEN 1 % m ELSE (2 * Pow2Mod(p - 1, m)) % m

RECURSIVE Pow2(_)
Pow2(p) == IF p = 0 THEN 1 ELSE 2 * Pow2(p - 1)

Prec(X) == 52 - Exp2(X)

RErr(X) ==
    IF X = 0 THEN 0
    ELSE LET rem == ((X % 1000) * Pow2Mod(Prec(X), 1000)) % 1000
         IN  IF rem < 500 THEN 0 - rem ELSE 1000 - rem

\* parity of the mantissa M of float(X/1000)
MantEven(X) == ((X % 2000) * Pow2Mod(Prec(X), 2000) + RErr(X)) % 2000 = 0

Max3(a, b, c) == IF a >= b /\ a >= c THEN a ELSE IF b >= c THEN b ELSE c

AbsDiff(A, B) == IF A >= B THEN A - B ELSE B - A

\* abs(store_val - prev_num) >= hyst, as the interpreter evaluates it
HystGE(A, B, H) ==
    IF H = 0 THEN TRUE
    ELSE IF AbsDiff(A, B) # H THEN AbsDiff(A, B) > H
    ELSE LET hi == IF A >= B THEN A ELSE B
             lo == IF A >= B THEN B ELSE A
             pa == Prec(hi)
             ph == Prec(H)
             pb == IF lo = 0 THEN pa ELSE Prec(lo)
             P  == Max3(pa, pb, ph)
             lhs == RErr(hi) * Pow2(P - pa) - RErr(lo) * Pow2(P - pb)
             rhs == (RErr(H) - 500) * Pow2(P - ph)
         IN  IF lhs # rhs THEN lhs > rhs ELSE MantEven(H)


(***************************************************************************)
(* Publisher.publish                                                       *)
(***************************************************************************)
\* the three Publisher classes: CAN bridge, RS485 monitor, Modbus bridge
Variants == {"can", "rs485", "modbus"}

\* STATE_PREFIX / MQTT_PREFIX
Prefix(variant) ==
    CASE variant = "can" -> "deye_bms"
      [] variant = "rs485" -> "deye_bms/rs485"
      [] OTHER -> "deye_inverter"

\* full_topic = f"{STATE_PREFIX}/{topic}"
FullTopic(variant, topic) == Prefix(variant) \o "/" \o topic

\* self.last_value.get(full_topic)
GetVal(lv, ft) == IF ft \in DOMAIN lv THEN lv[ft] ELSE None

\* variant of GetTs whose default is the call's own time stamp
GetTs_DefaultRecent(lts, ft) == IF ft \in DOMAIN lts THEN lts[ft] ELSE Epoch

\* self.last_ts.get(full_topic, 0)
GetTs(lts, ft) == IF ft \in DOMAIN lts THEN lts[ft] ELSE 0

\* variant of RateLimited without the floor
RateLimited_Off(t, prev_ts, mi) == FALSE

\* if (now - prev_ts) < min_interval: return False
RateLimited(t, prev_ts, mi) == (t - prev_ts) < mi

\* variant of ForceDue that never forces a refresh
ForceDue_Never(t, prev_ts) == FALSE

\* force_due = (now - prev_ts) >= FORCE_PUBLISH_INTERVAL_S
ForceDue(t, prev_ts) == (t - prev_ts) >= FORCE_PUBLISH_INTERVAL_S

\* store_val: float(value) for int and float; for a str the CAN bridge
\* tries float(value) first, the other two bridges keep str(value)
StoreVal(variant, value) ==
    IF value.k \in {"int", "float"} THEN PyFloat(value.m)
    ELSE IF variant = "can" /\ FloatParses(value.s) THEN PyFloat(FloatOfStr(value.s))
    ELSE PyStr(value.s)

\* with hyst: "if not isinstance(store_val, float): return False"
HystRejects(store_val, hyst) == hyst.some /\ ~IsFloat(store_val)

\* variant of ShouldPub that compares numbers only
ShouldPub_NumericOnly(prev_val, store_val, force_due, hyst) ==
    IF ~hyst.some
    THEN (IsFloat(prev_val) /\ IsFloat(store_val) /\ prev_val # store_val) \/ force_due
    ELSE \/ force_due
         \/ ~IsFloat(prev_val)
         \/ HystGE(store_val.m, prev_val.m, hyst.h)

\* variant of ShouldPub that ignores the hysteresis
ShouldPub_NoHyst(prev_val, store_val, force_due, hyst) ==
    (prev_val # store_val) \/ force_due

\* should_pub
ShouldPub(prev_val, store_val, force_due, hyst) ==
    IF ~hyst.some
    THEN (prev_val # store_val) \/ force_due
    ELSE \/ force_due
         \/ ~IsFloat(prev_val)
         \/ HystGE(store_val.m, prev_val.m, hyst.h)

\* dict assignment d[key] = v
DictSet(d, key, v) == [x \in DOMAIN d \cup {key} |-> IF x = key THEN v ELSE d[x]]

\* no message handed to the client
NoMsg == [topic |-> "", payload |-> "", retain |-> FALSE]

\* variant of AfterAttempt that updates the cache before the broker call
AfterAttempt_CacheFirst(lv, lts, ft, store_val, t, ok, msg) ==
    [last_value |-> DictSet(lv, ft, store_val),
     last_ts |-> DictSet(lts, ft, t),
     attempted |-> TRUE, ret |-> ok, raised |-> FALSE, msg |-> msg]

\* the try/except around client.publish and the cache update after it
AfterAttempt(lv, lts, ft, store_val, t, ok, msg) ==
    IF ~ok
    THEN [last_value |-> lv, last_ts |-> lts, attempted |-> TRUE,
          ret |-> FALSE, raised |-> FALSE, msg |-> msg]
    ELSE [last_value |-> DictSet(lv, ft, store_val),
          last_ts |-> DictSet(lts, ft, t),
          attempted |-> TRUE, ret |-> TRUE, raised |-> FALSE, msg |-> msg]

\* One call of publish at clock reading t on the cache (lv, lts); ok says
\* whether client.publish returns (TRUE) or raises (FALSE).  The result
\* is the cache after the call, whether client.publish was called, the
\* message handed to it, the return value, and whether an exception leaves
\* publish (the try/except around client.publish catches Exception).
PublishCall(variant, lv, lts, topic, value, retain, mi, hyst, t, ok) ==
    LET ft == FullTopic(variant, topic)
        prev_val == GetVal(lv, ft)
        prev_ts == GetTs(lts, ft)
        force_due == ForceDue(t, prev_ts)
        store_val == StoreVal(variant, value)
        suppressed == [last_value |-> lv, last_ts |-> lts, attempted |-> FALSE,
                       ret |-> FALSE, raised |-> FALSE, msg |-> NoMsg]
        msg == [topic |-> ft, payload |-> PyStrOf(value), retain |-> retain]
    IN  IF RateLimited(t, prev_ts, mi) THEN suppressed
        ELSE IF HystRejects(store_val, hyst) THEN suppressed
        ELSE IF ~ShouldPub(prev_val, store_val, force_due, hyst) THEN suppressed
        ELSE AfterAttempt(lv, lts, ft, store_val, t, ok, msg)


(***************************************************************************)
(* State                                                                   *)
(***************************************************************************)
VARIABLES
    variant,      \* which bridge's Publisher runs
    now,          \* the wall clock, time.time()
    last_value,   \* Publisher.last_value: full_topic -> stored value
    last_ts,      \* Publisher.last_ts: full_topic -> last publish time
    broker,       \* per full topic, the last message the client accepted
    ev,           \* the publish call just made: arguments and outcome
    stream,       \* the call site under observation: topic, min_interval, hyst
    obs,          \* what has been offered at that call site so far
    pc,           \* CAN bridge: position of main()
    bus,          \* CAN bridge: the bus handle _can_bus, "open" or "closed"
    msg,          \* CAN bridge: the frame bus.recv returned
    last_can_rx,  \* CAN bridge: local of main()
    last_heartbeat, \* CAN bridge: local of main()
    was_stale,    \* CAN bridge: local of main()
    mqtt_connected, \* CAN bridge: mqtt_connected[0]
    announced,    \* CAN bridge: discovery configs the client was handed
    availLast,    \* CAN bridge: last availability message the client accepted
    iter,         \* what the last step handed to the client
    ann,          \* position of the broker client's thread inside on_connect
    availSent,    \* last availability message passed to client.publish
    poll_count,   \* Modbus bridge: local of main()
    reading,      \* Modbus bridge: data["values"] of the last poll cycle
    args          \* Modbus bridge: the command line (args.loop)

canVars == <<pc, bus, msg, last_can_rx, last_heartbeat, was_stale, mqtt_connected,
             announced, availLast, iter, ann, availSent, poll_count, reading, args>>

vars == <<variant, now, last_value, last_ts, broker, ev, stream, obs,
          pc, bus, msg, last_can_rx, last_heartbeat, was_stale, mqtt_connected,
          announced, availLast, iter, ann, availSent, poll_count, reading, args>>

(***************************************************************************)
(* Inputs of the publisher harness                                         *)
(***************************************************************************)
\* one state topic of the bridge; the dictionaries are keyed by its full name
Topics == {"soc"}

Values == {PyFloat(3350), PyFloat(3353), PyFloat(3360), PyInt(5), PyStr("5"), PyStr("abc")}

MinIntervals == {MIN_INTERVAL_S_LIMITS, MIN_INTERVAL_S_DEFAULT, MIN_INTERVAL_S_SOC}

\* the Modbus bridge's publish takes no hyst argument
Hysts(v) == IF v = "modbus" THEN {NoHyst} ELSE {NoHyst, Hyst(VOLT_HYST_V)}

\* the clock readings at which publish is called
Readings == {Epoch + o : o \in (0 .. Jitter) \cup
                               (FORCE_PUBLISH_INTERVAL_S .. FORCE_PUBLISH_INTERVAL_S + Jitter)}

NoCall == [topic |-> "", value |-> None, mi |-> 0, hyst |-> NoHyst, ok |-> TRUE,
           attempted |-> FALSE, ret |-> FALSE, raised |-> FALSE, msg |-> NoMsg]

NoStream == [topic |-> "", mi |-> 0, hyst |-> NoHyst]

NoObs == [n |-> 0]

EmptyDict == [x \in {} |-> None]

\* no frame: bus.recv returned None
NoFrame == [some |-> FALSE, id |-> 0, data |-> <<>>]

NoAvail == [payload |-> "", retain |-> FALSE]

NoArgs == [loop |-> FALSE]

NoIter == [avail |-> <<>>, offered |-> <<>>, sent |-> <<>>, raised |-> FALSE]

\* the CAN bridge is not part of the publisher harness
CanIdle ==
    /\ pc = "off"
    /\ bus = "closed"
    /\ msg = NoFrame
    /\ last_can_rx = 0
    /\ last_heartbeat = 0
    /\ was_stale = FALSE
    /\ mqtt_connected = FALSE
    /\ announced = <<>>
    /\ availLast = NoAvail
    /\ iter = NoIter
    /\ ann = 0
    /\ availSent = NoAvail
    /\ poll_count = 0
    /\ reading = EmptyDict
    /\ args = NoArgs

\* the state right after Publisher.__init__
PubInit ==
    /\ variant \in Variants
    /\ now = Epoch
    /\ last_value = EmptyDict
    /\ last_ts = EmptyDict
    /\ broker = EmptyDict
    /\ ev = NoCall

\* pub.publish(topic, value, retain, min_interval, hyst), with the client
\* accepting the message (ok) or raising
DoPublish(topic, value, retain, mi, hyst, ok) ==
    \E r \in {PublishCall(variant, last_value, last_ts, topic, value, retain, mi, hyst, now, ok)} :
        /\ last_value' = r.last_value
        /\ last_ts' = r.last_ts
        /\ broker' = IF r.attempted /\ ok
                     THEN DictSet(broker, r.msg.topic,
                                  [ts |-> now, payload |-> r.msg.payload, retain |-> r.msg.retain])
                     ELSE broker
        /\ ev' = [topic |-> topic, value |-> value, mi |-> mi, hyst |-> hyst,
                  ok |-> (r.attempted => ok),
                  attempted |-> r.attempted, ret |-> r.ret, raised |-> r.raised, msg |-> r.msg]
        /\ UNCHANGED <<variant, now>>

Publish ==
    /\ \E topic \in Topics, value \in Values,
          mi \in MinIntervals, hyst \in Hysts(variant), ok \in BOOLEAN :
          DoPublish(topic, value, FALSE, mi, hyst, ok)
    /\ UNCHANGED <<stream, obs>>
    /\ UNCHANGED canVars

\* time passes between two calls
Tick ==
    /\ \E t \in Readings : t > now /\ now' = t
    /\ ev' = NoCall
    /\ UNCHANGED <<variant, last_value, last_ts, broker, stream, obs>>
    /\ UNCHANGED canVars

Init ==
    /\ PubInit
    /\ stream = NoStream
    /\ obs = NoObs
    /\ CanIdle

Next == Publish \/ Tick

Spec == Init /\ [][Next]_vars

(***************************************************************************)
(* The publisher's cache with two topics: calls on either topic, at any    *)
(* clock reading, with the client accepting or raising.                    *)
(***************************************************************************)
CacheTopics == {"soc", "soh"}

CacheValues == {PyFloat(3350), PyFloat(3360), PyStr("abc")}

CachePublish ==
    /\ \E topic \in CacheTopics, value \in CacheValues,
          hyst \in Hysts(variant), ok \in BOOLEAN :
          DoPublish(topic, value, FALSE, MIN_INTERVAL_S_DEFAULT, hyst, ok)
    /\ UNCHANGED <<stream, obs>>
    /\ UNCHANGED canVars

CacheNext == CachePublish \/ Tick

SpecCache == Init /\ [][CacheNext]_vars


(***************************************************************************)
(* One call site observed over time: a topic that is always offered with   *)
(* the same min_interval and hysteresis, as every call site of the         *)
(* bridges does.  obs records what was offered: the first value, the       *)
(* smallest and largest value, whether all were numeric, whether the       *)
(* broker accepted every publish handed to it, and how far the calls have  *)
(* followed the four-call scenario of the hysteresis example.              *)
(***************************************************************************)
StreamValues == {PyFloat(3342), PyFloat(3350), PyFloat(3351), PyFloat(3353), PyFloat(3360),
                 PyStr("abc")}

\* clock readings of the observed call site, relative to the start
StreamOffsets == {0, 1, 3, 5, FORCE_PUBLISH_INTERVAL_S, FORCE_PUBLISH_INTERVAL_S + 2}

\* the hysteresis example: values and times of its four calls
ScriptVal == <<PyFloat(3350), PyFloat(3351), PyFloat(3353), PyFloat(3360)>>
ScriptAt == <<0, 1, 3, 5>>
OffScript == Len(ScriptVal) + 1

StreamObs0 == [has |-> FALSE, first |-> 0, lo |-> 0, hi |-> 0, allNum |-> TRUE,
               allOk |-> TRUE, step |-> 0, pubs |-> <<>>]

ObsAfter(o, value, t, ok, ret, payload) ==
    LET num == value.k # "str"
        onScript == /\ o.step < Len(ScriptVal)
                    /\ value = ScriptVal[o.step + 1]
                    /\ t = Epoch + ScriptAt[o.step + 1]
                    /\ ok
                    /\ stream.mi = MIN_INTERVAL_S_DEFAULT
                    /\ stream.hyst = Hyst(VOLT_HYST_V)
    IN  [has |-> TRUE,
         first |-> IF o.has \/ ~num THEN o.first ELSE value.m,
         lo |-> IF ~num THEN o.lo ELSE IF ~o.has \/ value.m < o.lo THEN value.m ELSE o.lo,
         hi |-> IF ~num THEN o.hi ELSE IF ~o.has \/ value.m > o.hi THEN value.m ELSE o.hi,
         allNum |-> o.allNum /\ num,
         allOk |-> o.allOk /\ ok,
         step |-> IF onScript THEN o.step + 1 ELSE OffScript,
         pubs |-> IF ~onScript THEN <<>>
                  ELSE IF ret THEN Append(o.pubs, [payload |-> payload, at |-> t - Epoch])
                  ELSE o.pubs]

StreamInit ==
    /\ PubInit
    /\ variant \in {"can", "rs485"}
    /\ stream \in [topic : Topics, mi : {MIN_INTERVAL_S_DEFAULT, MIN_INTERVAL_S_SOC},
                   hyst : {Hyst(VOLT_HYST_V)}]
    /\ obs = StreamObs0
    /\ CanIdle

StreamCall ==
    \E value \in StreamValues, ok \in BOOLEAN :
        /\ DoPublish(stream.topic, value, FALSE, stream.mi, stream.hyst, ok)
        /\ obs' = ObsAfter(obs, value, now, ev'.ok, ev'.ret, ev'.msg.payload)
        /\ UNCHANGED stream
        /\ UNCHANGED canVars

StreamTick ==
    /\ \E o \in StreamOffsets : Epoch + o > now /\ now' = Epoch + o
    /\ ev' = NoCall
    /\ UNCHANGED <<variant, last_value, last_ts, broker, stream, obs>>
    /\ UNCHANGED canVars

StreamNext == StreamCall \/ StreamTick

SpecStream == StreamInit /\ [][StreamNext]_vars

(***************************************************************************)
(* One call site across broker failures: obs records the value of the last *)
(* call, whether it reached client.publish, whether client.publish raised  *)
(* in it, and whether it repeated the value of the call before it, in      *)
(* which client.publish had raised.                                        *)
(***************************************************************************)
RetryInit ==
    /\ PubInit
    /\ variant \in {"can", "rs485"}
    /\ stream \in [topic : Topics, mi : MinIntervals, hyst : Hysts(variant)]
    /\ obs = [has |-> FALSE, value |-> None, attempted |-> FALSE, failed |-> FALSE,
              retried |-> FALSE]
    /\ CanIdle

RetryCall ==
    \E value \in Values, ok \in BOOLEAN :
        /\ DoPublish(stream.topic, value, FALSE, stream.mi, stream.hyst, ok)
        /\ obs' = [has |-> TRUE, value |-> value,
                   attempted |-> ev'.attempted,
                   failed |-> ev'.attempted /\ ~ok,
                   retried |-> obs.failed /\ value = obs.value]
        /\ UNCHANGED stream
        /\ UNCHANGED canVars

RetryNext == RetryCall \/ Tick

SpecRetry == RetryInit /\ [][RetryNext]_vars


(***************************************************************************)
(* Continuous invocation: the observed call site is called at every clock  *)
(* reading, and successive readings are at most min_interval apart.  obs   *)
(* records whether the call of the current reading has been made and       *)
(* whether, since the last accepted publish, a call was refused by the     *)
(* broker or offered a non-numeric value with a hysteresis.                *)
(***************************************************************************)
\* the clock is observed up to Epoch + MaxLiveTime
MaxLiveTime == 135

LiveValues == {PyFloat(3350), PyFloat(3360), PyStr("abc")}

LiveInit ==
    /\ PubInit
    /\ stream \in [topic : Topics, mi : {MIN_INTERVAL_S_SOC}, hyst : Hysts(variant)]
    /\ obs = [called |-> FALSE, bad |-> FALSE]
    /\ CanIdle

LiveCall ==
    \E value \in LiveValues, ok \in BOOLEAN :
        /\ DoPublish(stream.topic, value, FALSE, stream.mi, stream.hyst, ok)
        /\ obs' = [called |-> TRUE,
                   bad |-> IF ev'.ret THEN FALSE
                           ELSE \/ obs.bad
                                \/ ev'.attempted /\ ~ok
                                \/ HystRejects(StoreVal(variant, value), stream.hyst)]
        /\ UNCHANGED stream
        /\ UNCHANGED canVars

LiveTick ==
    /\ obs.called
    /\ \E d \in {stream.mi \div 2, stream.mi} : now' = now + d
    /\ now' <= Epoch + MaxLiveTime
    /\ ev' = NoCall
    /\ obs' = [obs EXCEPT !.called = FALSE]
    /\ UNCHANGED <<variant, last_value, last_ts, broker, stream>>
    /\ UNCHANGED canVars

LiveNext == LiveCall \/ LiveTick

SpecLive == LiveInit /\ [][LiveNext]_vars

(***************************************************************************)
(* CAN bridge (pylon_can2mqtt.py): frame decoder                           *)
(***************************************************************************)
le_u16(b0, b1) == b0 + b1 * 256

HexDigit(n) ==
    CASE n < 10 -> DigitStr(n)
      [] n = 10 -> "A" [] n = 11 -> "B" [] n = 12 -> "C"
      [] n = 13 -> "D" [] n = 14 -> "E" [] OTHER -> "F"

HexByte(b) == HexDigit(b \div 16) \o HexDigit(b % 16)

\* f"0x{int.from_bytes(d, byteorder='little'):016X}"
FlagsStr(d) ==
    "0x" \o HexByte(d[8]) \o HexByte(d[7]) \o HexByte(d[6]) \o HexByte(d[5])
         \o HexByte(d[4]) \o HexByte(d[3]) \o HexByte(d[2]) \o HexByte(d[1])

InWindow(lo, x, hi) == lo <= x /\ x <= hi

Min2(a, b) == IF a <= b THEN a ELSE b
Max2(a, b) == IF a >= b THEN a ELSE b

\* one pub.publish call of the main loop
PubCall(topic, value, retain, mi, hyst) ==
    [topic |-> topic, value |-> value, retain |-> retain, mi |-> mi, hyst |-> hyst]

\* nothing to publish; cont says that the loop body ended with "continue"
Dropped == [calls |-> <<>>, cont |-> TRUE]

Decode351_NoWindow(d) ==
    [calls |-> <<
        PubCall("limit/v_charge_max", PyFloat(le_u16(d[1], d[2]) * 100), TRUE,
                MIN_INTERVAL_S_LIMITS, NoHyst),
        PubCall("limit/v_low", PyFloat(le_u16(d[7], d[8]) * 100), TRUE,
                MIN_INTERVAL_S_LIMITS, NoHyst),
        PubCall("limit/i_charge", PyFloat(le_u16(d[3], d[4]) * 100), FALSE,
                MIN_INTERVAL_S_LIMITS, NoHyst),
        PubCall("limit/i_discharge", PyFloat(le_u16(d[5], d[6]) * 100), FALSE,
                MIN_INTERVAL_S_LIMITS, NoHyst) >>,
     cont |-> FALSE]

\* 0x351: limits (d is 1-based: d[1] is data[0])
Decode351(d) ==
    LET v_charge_max == le_u16(d[1], d[2]) * 100
        i_charge_lim == le_u16(d[3], d[4]) * 100
        i_dis_lim == le_u16(d[5], d[6]) * 100
        v_low_lim == le_u16(d[7], d[8]) * 100
    IN  IF ~InWindow(PACK_V_MIN_V, v_charge_max, PACK_V_MAX_V) THEN Dropped
        ELSE IF ~InWindow(PACK_V_MIN_V, v_low_lim, PACK_V_MAX_V) THEN Dropped
        ELSE IF ~InWindow(0, i_charge_lim, I_MAX_ABS_A) THEN Dropped
        ELSE IF ~InWindow(0, i_dis_lim, I_MAX_ABS_A) THEN Dropped
        ELSE [calls |-> <<
                PubCall("limit/v_charge_max", PyFloat(v_charge_max), TRUE, MIN_INTERVAL_S_LIMITS, NoHyst),
                PubCall("limit/v_low", PyFloat(v_low_lim), TRUE, MIN_INTERVAL_S_LIMITS, NoHyst),
                PubCall("limit/i_charge", PyFloat(i_charge_lim), FALSE, MIN_INTERVAL_S_LIMITS, NoHyst),
                PubCall("limit/i_discharge", PyFloat(i_dis_lim), FALSE, MIN_INTERVAL_S_LIMITS, NoHyst) >>,
              cont |-> FALSE]

\* 0x355: SOC/SOH
Decode355(d) ==
    LET soc == le_u16(d[1], d[2])
        soh == le_u16(d[3], d[4])
    IN  IF ~InWindow(0, soc, 100) THEN Dropped
        ELSE IF ~InWindow(0, soh, 100) THEN Dropped
        ELSE [calls |-> <<
                PubCall("soc", PyInt(soc), FALSE, MIN_INTERVAL_S_SOC, NoHyst),
                PubCall("soh", PyInt(soh), TRUE, MIN_INTERVAL_S_SOC, NoHyst) >>,
              cont |-> FALSE]

\* 0x359: flags (min_interval=1.0 is 2 ticks)
Decode359(d) ==
    [calls |-> << PubCall("flags", PyStr(FlagsStr(d)), FALSE, 2, NoHyst) >>,
     cont |-> FALSE]

\* 0x370: extremes (min_interval 1.0 and 2.0 are 2 and 4 ticks, hyst 0.005 is 5)
Decode370(d) ==
    LET t1 == le_u16(d[1], d[2]) * 100
        t2 == le_u16(d[3], d[4]) * 100
        tmin == Min2(t1, t2)
        tmax == Max2(t1, t2)
        v1 == le_u16(d[5], d[6])
        v2 == le_u16(d[7], d[8])
        v_candidates == {v \in {v1, v2} : InWindow(CELL_V_MIN_V, v, CELL_V_MAX_V)}
        vmin == CHOOSE v \in v_candidates : \A w \in v_candidates : v <= w
        vmax == CHOOSE v \in v_candidates : \A w \in v_candidates : v >= w
        delta == vmax - vmin
    IN  IF ~(InWindow(TEMP_MIN_C, tmin, TEMP_MAX_C) /\ InWindow(TEMP_MIN_C, tmax, TEMP_MAX_C))
        THEN Dropped
        ELSE IF v_candidates = {} THEN Dropped
        ELSE [calls |-> <<
                PubCall("ext/cell_v_min", PyFloat(vmin), FALSE, 2, Hyst(VOLT_HYST_V)),
                PubCall("ext/cell_v_max", PyFloat(vmax), FALSE, 2, Hyst(VOLT_HYST_V)),
                PubCall("ext/cell_v_delta", PyFloat(delta), FALSE, 4, Hyst(5)),
                PubCall("ext/temp_min", PyFloat(tmin), FALSE, 4, Hyst(TEMP_HYST_C)),
                PubCall("ext/temp_max", PyFloat(tmax), FALSE, 4, Hyst(TEMP_HYST_C)) >>,
              cont |-> FALSE]

\* the if/elif chain on msg.arbitration_id
DecodeFrame(arb, d) ==
    CASE arb = 849 -> Decode351(d)
      [] arb = 853 -> Decode355(d)
      [] arb = 857 -> Decode359(d)
      [] arb = 880 -> Decode370(d)
      [] OTHER -> [calls |-> <<>>, cont |-> FALSE]

\* the pub.publish calls of one loop iteration, in order, on the cache;
\* ok says whether client.publish returns or raises during this iteration
RECURSIVE PublishAll(_, _, _, _, _, _, _)
PublishAll(calls, lv, lts, brk, t, ok, sent) ==
    IF calls = <<>> THEN [last_value |-> lv, last_ts |-> lts, broker |-> brk, sent |-> sent]
    ELSE LET c == Head(calls)
             r == PublishCall("can", lv, lts, c.topic, c.value, c.retain, c.mi, c.hyst, t, ok)
         IN  PublishAll(Tail(calls), r.last_value, r.last_ts,
                        IF r.attempted /\ ok
                        THEN DictSet(brk, r.msg.topic,
                                     [ts |-> t, payload |-> r.msg.payload, retain |-> r.msg.retain])
                        ELSE brk,
                        t, ok,
                        IF r.attempted THEN Append(sent, r.msg) ELSE sent)

(***************************************************************************)
(* CAN bridge: supervisor.  main() is followed through its blocking        *)
(* points: "connect" (inside connect_can_bus, before the loop or after a   *)
(* CanError), "recv" (blocked in bus.recv), "got" (bus.recv returned, the  *)
(* rest of the loop body runs), "exit".  Time passes in bus.recv (up to    *)
(* its 1 s timeout) and in the 5 s sleep of connect_can_bus.               *)
(***************************************************************************)
AVAIL_TOPIC == Prefix("can") \o "/status"

Online == [payload |-> "online", retain |-> TRUE]
Offline == [payload |-> "offline", retain |-> TRUE]

\* object ids of the sensors table of publish_discovery
Sensors == {"soc", "soh", "v_charge_max", "v_low", "i_charge", "i_discharge",
            "cell_v_min", "cell_v_max", "cell_v_delta", "temp_min", "temp_max", "flags"}

Frame(id, data) == [some |-> TRUE, id |-> id, data |-> data]

\* frames the bus delivers
Frames == { Frame(849, <<0, 0, 0, 0, 0, 0, 0, 0>>),
            Frame(849, <<230, 1, 44, 1, 44, 1, 244, 1>>),
            Frame(853, <<80, 0, 100, 0, 0, 0, 0, 0>>),
            Frame(291, <<1, 2, 3, 4, 5, 6, 7, 8>>),
            Frame(853, <<80, 0, 100, 0>>) }

\* offsets from the start at which the bus delivers frames
ActiveOffsets ==
    (0 .. BurstLen) \cup
    (CAN_STALE_TIMEOUT_S + RecvTimeout .. CAN_STALE_TIMEOUT_S + RecvTimeout + BurstLen)

MaxCanTime == CAN_STALE_TIMEOUT_S + RecvTimeout + BurstLen + Horizon

\* is_stale = (now - last_can_rx) > CAN_STALE_TIMEOUT_S
IsStale(t, rx) == (t - rx) > CAN_STALE_TIMEOUT_S

\* a loop that takes only frames of the decoded ids as valid
ValidFrame_KnownId(m) == m.some /\ Len(m.data) = 8 /\ m.id \in {849, 853, 857, 880}

\* not (msg is None or len(msg.data) != 8)
ValidFrame(m) == m.some /\ Len(m.data) = 8

\* (now - last_heartbeat) >= heartbeat_period
HeartbeatDue(t, hb) == (t - hb) >= heartbeat_period

\* a loop whose idle heartbeat does not look at is_stale
IdleHeartbeat_Always(is_stale, t, hb) == HeartbeatDue(t, hb)

\* "if not is_stale and (now - last_heartbeat) >= heartbeat_period": the
\* heartbeat of an iteration without a valid frame
IdleHeartbeat(is_stale, t, hb) == ~is_stale /\ HeartbeatDue(t, hb)

\* a stale check that does not look at was_stale
StaleAvail_Every(is_stale, was) == IF is_stale THEN <<Offline>> ELSE <<>>

\* "if is_stale and not was_stale": the offline publication of the stale check
StaleAvail(is_stale, was) == IF is_stale /\ ~was THEN <<Offline>> ELSE <<>>

RecoveryAvail_Silent(was) == <<>>

\* "if was_stale": the online publication after a valid frame
RecoveryAvail(was) == IF was THEN <<Online>> ELSE <<>>

\* the last message of a sequence of availability messages, when accepted
AvailAfter(prev, avail, ok) ==
    IF ok /\ avail # <<>> THEN avail[Len(avail)] ELSE prev

DISCOVERY_PREFIX == "homeassistant"

DEVICE_ID == "deye_bms_master"

\* the sensors table of publish_discovery, in its order
SensorList == << "soc", "soh", "v_charge_max", "v_low", "i_charge", "i_discharge",
                 "cell_v_min", "cell_v_max", "cell_v_delta", "temp_min", "temp_max",
                 "flags" >>

\* json.dumps(cfg), cut down to the key that tells the configs apart
ConfigJson(object_id) ==
    "{" \o "unique_id: " \o DEVICE_ID \o "_" \o object_id \o "}"

\* client.publish(cfg_topic, json.dumps(cfg), retain=True)
ConfigMsg(object_id) ==
    [topic |-> DISCOVERY_PREFIX \o "/sensor/" \o DEVICE_ID \o "/" \o object_id \o "/config",
     payload |-> ConfigJson(object_id),
     retain |-> TRUE]

\* client.publish(AVAIL_TOPIC, payload, retain=True)
AvailMsg(a) == [topic |-> AVAIL_TOPIC, payload |-> a.payload, retain |-> a.retain]

\* the config messages of publish_discovery
ConfigMsgs == [i \in 1 .. Len(SensorList) |-> ConfigMsg(SensorList[i])]

PublishDiscovery_NoAvail == ConfigMsgs

\* publish_discovery(client): one config per sensor, then the availability
PublishDiscovery == ConfigMsgs \o << AvailMsg(Online) >>

\* the client.publish calls of on_connect when rc is 0
OnConnectSeq == << AvailMsg(Online) >> \o PublishDiscovery

\* the state after main() has started the broker client, published the
\* discovery configs and installed the signal handlers
CanInit ==
    /\ variant = "can"
    /\ now = Epoch
    /\ last_value = EmptyDict
    /\ last_ts = EmptyDict
    /\ broker = EmptyDict
    /\ ev = NoCall
    /\ stream = NoStream
    /\ obs = NoObs
    /\ pc = "connect"
    /\ bus = "none"
    /\ msg = NoFrame
    /\ last_can_rx = 0
    /\ last_heartbeat = 0
    /\ was_stale = FALSE
    /\ mqtt_connected = FALSE
    /\ announced = ConfigMsgs
    /\ availLast = Online
    /\ iter = NoIter
    /\ ann = 0
    /\ availSent = Online
    /\ poll_count = 0
    /\ reading = EmptyDict
    /\ args = NoArgs

\* the loop locals exist once the first connect_can_bus has returned
Started == bus # "none"

\* a reconnect that starts main() over: the loop locals are set again
ConnectOk_FreshLocals ==
    /\ pc = "connect"
    /\ pc' = "recv"
    /\ bus' = "open"
    /\ last_heartbeat' = 0
    /\ last_can_rx' = now
    /\ was_stale' = FALSE
    /\ iter' = NoIter
    /\ UNCHANGED <<variant, now, last_value, last_ts, broker, ev, stream, obs,
                   msg, mqtt_connected, announced, availLast,
                   ann, availSent, poll_count, reading, args>>

\* connect_can_bus: can.Bus(...) succeeds
ConnectOk ==
    /\ pc = "connect"
    /\ pc' = "recv"
    /\ bus' = "open"
    /\ IF ~Started
       THEN /\ last_heartbeat' = 0
            /\ last_can_rx' = now
            /\ was_stale' = FALSE
       ELSE UNCHANGED <<last_heartbeat, last_can_rx, was_stale>>
    /\ iter' = NoIter
    /\ UNCHANGED <<variant, now, last_value, last_ts, broker, ev, stream, obs,
                   msg, mqtt_connected, announced, availLast,
                   ann, availSent, poll_count, reading, args>>

\* connect_can_bus: can.Bus(...) raises OSError, time.sleep(5)
ConnectFail ==
    /\ pc = "connect"
    /\ now + RetrySleep <= Epoch + MaxCanTime
    /\ now' = now + RetrySleep
    /\ iter' = NoIter
    /\ UNCHANGED <<variant, last_value, last_ts, broker, ev, stream, obs,
                   pc, bus, msg, last_can_rx, last_heartbeat, was_stale,
                   mqtt_connected, announced, availLast,
                   ann, availSent, poll_count, reading, args>>

\* msg = bus.recv(timeout=1.0): a frame within the timeout, or None after it
Recv ==
    /\ pc = "recv"
    /\ \/ /\ now' = now + RecvTimeout
          /\ msg' = NoFrame
       \/ \E d \in {0, RecvTimeout} :
             /\ now' = now + d
             /\ (now' - Epoch) \in ActiveOffsets
             /\ msg' \in Frames
    /\ now' <= Epoch + MaxCanTime
    /\ pc' = "got"
    /\ iter' = NoIter
    /\ UNCHANGED <<variant, last_value, last_ts, broker, ev, stream, obs,
                   bus, last_can_rx, last_heartbeat, was_stale,
                   mqtt_connected, announced, availLast,
                   ann, availSent, poll_count, reading, args>>

\* bus.recv raises can.CanError: bus.shutdown(), then connect_can_bus()
RecvError ==
    /\ pc = "recv"
    /\ pc' = "connect"
    /\ bus' = "closed"
    /\ iter' = NoIter
    /\ UNCHANGED <<variant, now, last_value, last_ts, broker, ev, stream, obs,
                   msg, last_can_rx, last_heartbeat, was_stale,
                   mqtt_connected, announced, availLast,
                   ann, availSent, poll_count, reading, args>>

\* the last message of a sequence of availability messages passed to
\* client.publish
SentAfter(prev, avail) == IF avail # <<>> THEN avail[Len(avail)] ELSE prev

\* the loop body after bus.recv returned, on the variables of the bridge
ProcessBody ==
    /\ pc = "got"
    /\ pc' = "recv"
    /\ \E ok \in BOOLEAN :
       LET is_stale == IsStale(now, last_can_rx)
           staleAvail == StaleAvail(is_stale, was_stale)
           was1 == was_stale \/ is_stale
       IN  IF ~ValidFrame(msg)
           THEN LET hb == IdleHeartbeat(is_stale, now, last_heartbeat)
                    avail == staleAvail \o (IF hb THEN <<Online>> ELSE <<>>)
                IN  /\ was_stale' = was1
                    /\ last_heartbeat' = IF hb THEN now ELSE last_heartbeat
                    /\ availLast' = AvailAfter(availLast, avail, ok)
                    /\ availSent' = SentAfter(availSent, avail)
                    /\ iter' = [avail |-> avail, offered |-> <<>>, sent |-> <<>>,
                                raised |-> ~ok /\ avail # <<>>]
                    /\ UNCHANGED <<last_can_rx, last_value, last_ts, broker>>
           ELSE \E dec \in {DecodeFrame(msg.id, msg.data)} :
                \E r \in {PublishAll(dec.calls, last_value, last_ts, broker, now, ok, <<>>)} :
                LET hb == ~dec.cont /\ HeartbeatDue(now, last_heartbeat)
                    avail == staleAvail \o RecoveryAvail(was1)
                                        \o (IF hb THEN <<Online>> ELSE <<>>)
                IN  /\ last_can_rx' = now
                    /\ was_stale' = FALSE
                    /\ last_value' = r.last_value
                    /\ last_ts' = r.last_ts
                    /\ broker' = r.broker
                    /\ last_heartbeat' = IF hb THEN now ELSE last_heartbeat
                    /\ availLast' = AvailAfter(availLast, avail, ok)
                    /\ availSent' = SentAfter(availSent, avail)
                    /\ iter' = [avail |-> avail,
                                offered |-> [i \in 1 .. Len(dec.calls) |-> dec.calls[i].topic],
                                sent |-> r.sent,
                                raised |-> ~ok /\ (avail # <<>> \/ r.sent # <<>>)]
    /\ msg' = NoFrame
    /\ UNCHANGED <<variant, now, ev, stream, bus, mqtt_connected, announced,
                   ann, poll_count, reading, args>>

\* the loop body after bus.recv returned
Process == ProcessBody /\ UNCHANGED obs

\* on_connect(rc) is called on the broker client's thread after a connect or
\* reconnect; rc = 0 is success.  Its client.publish calls are the steps of
\* Announce.
OnConnect ==
    /\ pc \in {"connect", "recv", "got"}
    /\ ann = 0
    /\ mqtt_connected' = TRUE
    /\ \E rc \in {0, 5} :
         IF rc = 0
         THEN /\ ann' = 1
              /\ announced' = <<>>
         ELSE UNCHANGED <<ann, announced>>
    /\ iter' = NoIter
    /\ UNCHANGED <<variant, now, last_value, last_ts, broker, ev, stream, obs,
                   pc, bus, msg, last_can_rx, last_heartbeat, was_stale,
                   availLast, availSent, poll_count, reading, args>>

\* one client.publish call of on_connect, on the broker client's thread;
\* when it raises, the try/except of on_connect ends the callback
Announce ==
    /\ pc \in {"connect", "recv", "got"}
    /\ ann # 0
    /\ \E ok \in BOOLEAN :
       LET m == OnConnectSeq[ann]
           isAvail == m.topic = AVAIL_TOPIC
       IN  /\ ann' = IF ok /\ ann < Len(OnConnectSeq) THEN ann + 1 ELSE 0
           /\ announced' = IF ok /\ ~isAvail THEN Append(announced, m) ELSE announced
           /\ availSent' = IF isAvail THEN Online ELSE availSent
           /\ availLast' = IF isAvail /\ ok THEN Online ELSE availLast
           /\ iter' = [avail |-> IF isAvail THEN <<Online>> ELSE <<>>,
                       offered |-> <<>>, sent |-> <<m>>, raised |-> ~ok]
    /\ UNCHANGED <<variant, now, last_value, last_ts, broker, ev, stream, obs,
                   pc, bus, msg, last_can_rx, last_heartbeat, was_stale,
                   mqtt_connected, poll_count, reading, args>>

\* on_disconnect, called on the broker client's thread
OnDisconnect ==
    /\ pc \in {"connect", "recv", "got"}
    /\ ann = 0
    /\ mqtt_connected
    /\ mqtt_connected' = FALSE
    /\ iter' = NoIter
    /\ UNCHANGED <<variant, now, last_value, last_ts, broker, ev, stream, obs,
                   pc, bus, msg, last_can_rx, last_heartbeat, was_stale,
                   announced, availLast, ann, availSent, poll_count, reading, args>>

\* shutdown(signum, frame): the SIGTERM / SIGINT handler
Shutdown ==
    /\ pc \in {"connect", "recv", "got"}
    /\ pc' = "exit"
    /\ \E ok \in BOOLEAN :
         /\ availLast' = AvailAfter(availLast, <<Offline>>, ok)
         /\ iter' = [avail |-> <<Offline>>, offered |-> <<>>, sent |-> <<>>,
                     raised |-> ~ok]
    /\ availSent' = Offline
    /\ bus' = IF bus = "none" THEN "none" ELSE "closed"
    /\ UNCHANGED <<variant, now, last_value, last_ts, broker, ev, stream, obs,
                   msg, last_can_rx, last_heartbeat, was_stale, announced,
                   mqtt_connected, ann, poll_count, reading, args>>

CanNext ==
    \/ ConnectOk
    \/ ConnectFail
    \/ Recv
    \/ RecvError
    \/ Process
    \/ OnConnect
    \/ Announce
    \/ OnDisconnect
    \/ Shutdown

SpecCan == CanInit /\ [][CanNext]_vars

(***************************************************************************)
(* CAN bridge: the main loop over more than one heartbeat period, on a bus *)
(* that at any time delivers nothing, a frame of an unknown id, a frame of *)
(* another length than 8, or a frame the sanity windows reject.            *)
(***************************************************************************)
\* the clock is observed for BeatHorizon ticks after the first heartbeat
\* period
BeatHorizon == 4

BeatFrames == { Frame(849, <<0, 0, 0, 0, 0, 0, 0, 0>>),
                Frame(291, <<1, 2, 3, 4, 5, 6, 7, 8>>),
                Frame(853, <<80, 0, 100, 0>>) }

\* msg = bus.recv(timeout=1.0): a frame within the timeout, or None after it
BeatRecv ==
    /\ pc = "recv"
    /\ \/ /\ now' = now + RecvTimeout
          /\ msg' = NoFrame
       \/ \E d \in {0, RecvTimeout} :
             /\ now' = now + d
             /\ msg' \in BeatFrames
    /\ now' <= Epoch + heartbeat_period + BeatHorizon
    /\ pc' = "got"
    /\ iter' = NoIter
    /\ UNCHANGED <<variant, last_value, last_ts, broker, ev, stream, obs,
                   bus, last_can_rx, last_heartbeat, was_stale,
                   mqtt_connected, announced, availLast,
                   ann, availSent, poll_count, reading, args>>

BeatNext == ConnectOk \/ BeatRecv \/ Process

SpecBeat == CanInit /\ [][BeatNext]_vars

(***************************************************************************)
(* CAN bridge: stale episodes.  The main loop of SpecBeat, with obs        *)
(* keeping the history of the stale check: how many times it published     *)
(* 'offline', whether a frame of 8 bytes and a recovery 'online' came      *)
(* after the last of them, and whether that held at every later 'offline'. *)
(***************************************************************************)
NoEpisode == [offlines |-> 0, frame |-> FALSE, online |-> FALSE, gap_ok |-> TRUE]

\* the state of CanInit, with an empty history
EpisodeInit ==
    /\ variant = "can" /\ now = Epoch
    /\ last_value = EmptyDict /\ last_ts = EmptyDict /\ broker = EmptyDict
    /\ ev = NoCall /\ stream = NoStream
    /\ obs = NoEpisode
    /\ pc = "connect" /\ bus = "none" /\ msg = NoFrame
    /\ last_can_rx = 0 /\ last_heartbeat = 0 /\ was_stale = FALSE
    /\ mqtt_connected = FALSE /\ announced = ConfigMsgs
    /\ availLast = Online /\ availSent = Online
    /\ iter = NoIter /\ ann = 0
    /\ poll_count = 0 /\ reading = EmptyDict /\ args = NoArgs

\* one iteration of the loop body, and what it adds to the history
EpisodeProcess ==
    /\ ProcessBody
    /\ LET frame8 == msg.some /\ Len(msg.data) = 8
           offline == iter'.avail # <<>> /\ iter'.avail[1] = Offline
           recovery == /\ frame8
                       /\ was_stale \/ offline
                       /\ ~was_stale'
                       /\ \E i \in DOMAIN iter'.avail :
                             iter'.avail[i] = Online /\ (offline => i > 1)
       IN  obs' = IF offline
                  THEN [offlines |-> Min2(obs.offlines + 1, 2),
                        frame |-> frame8,
                        online |-> recovery,
                        gap_ok |-> obs.gap_ok /\ (obs.offlines = 0 \/ (obs.frame /\ obs.online))]
                  ELSE [obs EXCEPT !.frame = @ \/ frame8, !.online = @ \/ recovery]

EpisodeNext == ConnectOk \/ BeatRecv \/ EpisodeProcess

SpecEpisode == EpisodeInit /\ [][EpisodeNext]_vars

(***************************************************************************)
(* CAN bridge: the loop body call by call.  SIGTERM and SIGINT run         *)
(* shutdown() on the main thread between two bytecodes of the loop, and    *)
(* its sys.exit(0) raises SystemExit at that point; neither the            *)
(* "except Exception" of publish nor the one of the loop catches it.  pc   *)
(* is "got" from the return of bus.recv until the last pub.publish of the  *)
(* frame has returned; obs holds the pub.publish calls of the frame and    *)
(* how many of them have been made.                                        *)
(***************************************************************************)
\* the clock is observed for SigHorizon ticks after the start
SigHorizon == 2

\* frames inside the sanity windows: limits and SOC/SOH
SigFrames == { Frame(849, <<230, 1, 44, 1, 44, 1, 244, 1>>),
               Frame(853, <<80, 0, 100, 0, 0, 0, 0, 0>>) }

\* the state of CanInit, with no frame in flight
SigInit ==
    /\ variant = "can" /\ now = Epoch
    /\ last_value = EmptyDict /\ last_ts = EmptyDict /\ broker = EmptyDict
    /\ ev = NoCall /\ stream = NoStream
    /\ obs = [calls |-> <<>>, k |-> 0]
    /\ pc = "connect" /\ bus = "none" /\ msg = NoFrame
    /\ last_can_rx = 0 /\ last_heartbeat = 0 /\ was_stale = FALSE
    /\ mqtt_connected = FALSE /\ announced = ConfigMsgs
    /\ availLast = Online /\ availSent = Online
    /\ iter = NoIter /\ ann = 0
    /\ poll_count = 0 /\ reading = EmptyDict /\ args = NoArgs

\* bus.recv returns a frame of 8 bytes; the head of the loop body runs up to
\* the branch of the frame's id
SigRecv ==
    /\ pc = "recv"
    /\ \E d \in {0, RecvTimeout}, m \in SigFrames, ok \in BOOLEAN :
         LET is_stale == IsStale(now + d, last_can_rx)
             avail == StaleAvail(is_stale, was_stale)
                        \o RecoveryAvail(was_stale \/ is_stale)
         IN  /\ now' = now + d
             /\ now' <= Epoch + SigHorizon
             /\ last_can_rx' = now'
             /\ was_stale' = FALSE
             /\ availLast' = AvailAfter(availLast, avail, ok)
             /\ availSent' = SentAfter(availSent, avail)
             /\ obs' = [calls |-> DecodeFrame(m.id, m.data).calls, k |-> 0]
             /\ msg' = m
    /\ pc' = "got"
    /\ iter' = NoIter
    /\ UNCHANGED <<variant, last_value, last_ts, broker, ev, stream, bus,
                   last_heartbeat, mqtt_connected, announced, ann, poll_count,
                   reading, args>>

\* the next pub.publish call of the frame's branch
SigPublish ==
    /\ pc = "got"
    /\ obs.k < Len(obs.calls)
    /\ \E ok \in BOOLEAN :
         LET c == obs.calls[obs.k + 1]
         IN  DoPublish(c.topic, c.value, c.retain, c.mi, c.hyst, ok)
    /\ obs' = [obs EXCEPT !.k = @ + 1]
    /\ UNCHANGED stream
    /\ UNCHANGED canVars

\* the heartbeat at the end of the loop body
SigHeartbeat ==
    /\ pc = "got"
    /\ obs.k = Len(obs.calls)
    /\ pc' = "recv"
    /\ \E ok \in BOOLEAN :
         LET hb == HeartbeatDue(now, last_heartbeat)
             avail == IF hb THEN <<Online>> ELSE <<>>
         IN  /\ last_heartbeat' = IF hb THEN now ELSE last_heartbeat
             /\ availLast' = AvailAfter(availLast, avail, ok)
             /\ availSent' = SentAfter(availSent, avail)
    /\ msg' = NoFrame
    /\ iter' = NoIter
    /\ UNCHANGED <<variant, now, last_value, last_ts, broker, ev, stream, obs,
                   bus, last_can_rx, was_stale, mqtt_connected, announced,
                   ann, poll_count, reading, args>>

SigNext == ConnectOk \/ SigRecv \/ SigPublish \/ SigHeartbeat \/ Shutdown

SpecSignal == SigInit /\ [][SigNext]_vars

(***************************************************************************)
(* Modbus bridge (deye_modbus2mqtt.py): raw-value decoding of              *)
(* read_register.  A raw value is written [hi, lo] for hi * 65536 + lo     *)
(* with lo in 0 .. 65535, so that 32-bit values need no wide integers.     *)
(***************************************************************************)
Big(hi, lo) == [hi |-> hi, lo |-> lo]

\* raw = regs[0]
OfWord(w) == Big(0, w)

OrShifted_BigEndian(lo_word, hi_word) == Big(lo_word, hi_word)

\* regs[0] | (regs[1] << 16) for 16-bit words: the shifted word has no bit
\* in common with the low word
OrShifted(lo_word, hi_word) == Big(hi_word, lo_word)

\* raw = regs[0] | (regs[1] << 16), the first word is the low one
Combine32(regs) == OrShifted(regs[1], regs[2])

\* if raw > 0x7FFF: raw -= 0x10000
Signed16(raw) == IF raw.lo > 32767 THEN Big(raw.hi - 1, raw.lo) ELSE raw

\* if raw > 0x7FFFFFFF: raw -= 0x100000000
Signed32(raw) == IF raw.hi > 32767 THEN Big(raw.hi - 65536, raw.lo) ELSE raw

DataTypes == {"int16", "uint16", "int32", "uint32"}

\* the number of words read_register asks for
WordCount(data_type) == IF data_type \in {"int32", "uint32"} THEN 2 ELSE 1

\* the if/elif chain on reg.data_type
DecodeRaw(data_type, regs) ==
    CASE data_type = "int16" -> Signed16(OfWord(regs[1]))
      [] data_type = "uint16" -> OfWord(regs[1])
      [] data_type = "int32" -> Signed32(Combine32(regs))
      [] data_type = "uint32" -> Combine32(regs)
      [] OTHER -> OfWord(regs[1])

\* 16-bit words the inverter returns
Words == {0, 1, 32767, 32768, 65534, 65535}

NoRaw == Big(0, 0)

\* one read_register call: the data type, the words read, the raw value
DecodeInit ==
    /\ PubInit /\ stream = NoStream /\ CanIdle
    /\ \E dt \in DataTypes, w0 \in Words, w1 \in Words :
         obs = [data_type |-> dt,
                regs |-> IF WordCount(dt) = 2 THEN <<w0, w1>> ELSE <<w0>>,
                raw |-> NoRaw, done |-> FALSE]

Decode ==
    /\ ~obs.done
    /\ obs' = [obs EXCEPT !.raw = DecodeRaw(obs.data_type, obs.regs), !.done = TRUE]
    /\ UNCHANGED <<variant, now, last_value, last_ts, broker, ev, stream>>
    /\ UNCHANGED canVars

DecodeNext == Decode

SpecDecode == DecodeInit /\ [][DecodeNext]_vars

(***************************************************************************)
(* Modbus bridge: poll cycle and supervisor.  main() is followed through   *)
(* "connect" (before modbus.connect()), "mqtt" (before client.connect()),  *)
(* "loop" (top of the while loop) and "exit".                              *)
(***************************************************************************)
\* --interval, default 10 s
MbInterval == 20

\* time.sleep(5) of the except branch of the loop
MbErrorSleep == 10

\* time.sleep(0.5) of the cleanup
MbFlushSleep == 1

\* number of poll cycles followed
MaxPolls == 4

MB_DEVICE_ID == "deye_inverter"

MB_AVAIL_TOPIC == Prefix("modbus") \o "/status"

\* three registers of the REGISTERS table, one per scan group and data type
\* in use; scale and offset in thousandths; ints says that scale
\* and offset are written as the ints 1 and 0, so that the value is an int
REGISTERS ==
    << [address |-> 672, name |-> "pv1_power", scale |-> 1000, offset |-> 0, ints |-> TRUE,
        data_type |-> "int16", scan_group |-> "fast", legacy_unique_id |-> "deye-tcp-pv1-power"],
       [address |-> 534, name |-> "total_production", scale |-> 100, offset |-> 0, ints |-> FALSE,
        data_type |-> "uint32", scan_group |-> "slow", legacy_unique_id |-> ""],
       [address |-> 588, name |-> "battery_soc", scale |-> 1000, offset |-> 0, ints |-> TRUE,
        data_type |-> "uint16", scan_group |-> "normal",
        legacy_unique_id |-> "deye-tcp-battery-soc"] >>

RegIdx == 1 .. Len(REGISTERS)

\* next((r for r in REGISTERS if r.name == name), None)
RegOf(name) == REGISTERS[CHOOSE i \in RegIdx : REGISTERS[i].name = name]

Groups_EverySecond(n) ==
    IF n % 6 = 0 THEN {"fast", "normal", "slow"}
    ELSE IF n % 2 = 0 THEN {"fast", "normal"}
    ELSE {"fast"}

\* the scan groups of poll cycle n
Groups(n) ==
    IF n % 6 = 0 THEN {"fast", "normal", "slow"}
    ELSE IF n % 3 = 0 THEN {"fast", "normal"}
    ELSE {"fast"}

\* the registers poll_registers reads: those of the scan groups
Asked(groups) == {i \in RegIdx : REGISTERS[i].scan_group \in groups}

\* the word on the wire: 0xFFFF, which the signed types read as negative
BusWords == {65535}

ReadFailed == [ok |-> FALSE, regs |-> <<>>]

\* what read_holding_registers can give for a register: an error or an
\* exception, or the words
ReadOutcomes(reg) ==
    {ReadFailed} \cup
    { [ok |-> TRUE, regs |-> IF WordCount(reg.data_type) = 2 THEN <<w, 0>> ELSE <<w>>] :
        w \in BusWords }

\* round(raw * reg.scale + reg.offset, 3)
Scaled(reg, raw) ==
    LET r == raw.hi * 65536 + raw.lo
    IN  IF reg.ints THEN PyInt(r) ELSE PyFloat(r * reg.scale + reg.offset)

\* read_register: None is modelled by leaving the register out
ReadRegister(reg, out) == Scaled(reg, DecodeRaw(reg.data_type, out.regs))

PollRegisters_AllOrNothing(groups, out) ==
    IF \E i \in Asked(groups) : ~out[i].ok THEN EmptyDict
    ELSE [name \in {REGISTERS[i].name : i \in Asked(groups)} |->
             ReadRegister(RegOf(name), out[CHOOSE i \in RegIdx : REGISTERS[i].name = name])]

\* poll_registers: data["values"], out[i] being the outcome of reading
\* REGISTERS[i]
PollRegisters(groups, out) ==
    [name \in {REGISTERS[i].name : i \in {j \in Asked(groups) : out[j].ok}} |->
        ReadRegister(RegOf(name), out[CHOOSE i \in RegIdx : REGISTERS[i].name = name])]

\* min_interval of publish_mqtt_data, by scan group
MbMinInterval(group) ==
    CASE group = "fast" -> 10
      [] group = "normal" -> 30
      [] group = "slow" -> 60
      [] OTHER -> 30

\* publish_mqtt_data: one pub.publish per entry of data["values"], in the
\* order of insertion, which is the order of REGISTERS
RECURSIVE MbCalls(_, _)
MbCalls(i, values) ==
    IF i > Len(REGISTERS) THEN <<>>
    ELSE (IF REGISTERS[i].name \in DOMAIN values
          THEN << PubCall(REGISTERS[i].name, values[REGISTERS[i].name], FALSE,
                          MbMinInterval(REGISTERS[i].scan_group), NoHyst) >>
          ELSE <<>>) \o MbCalls(i + 1, values)

\* the pub.publish calls of one cycle on the cache of the given bridge
RECURSIVE PublishAllOf(_, _, _, _, _, _, _, _)
PublishAllOf(v, calls, lv, lts, brk, t, ok, sent) ==
    IF calls = <<>> THEN [last_value |-> lv, last_ts |-> lts, broker |-> brk, sent |-> sent]
    ELSE LET c == Head(calls)
             r == PublishCall(v, lv, lts, c.topic, c.value, c.retain, c.mi, c.hyst, t, ok)
         IN  PublishAllOf(v, Tail(calls), r.last_value, r.last_ts,
                      IF r.attempted /\ ok
                      THEN DictSet(brk, r.msg.topic,
                                   [ts |-> t, payload |-> r.msg.payload, retain |-> r.msg.retain])
                      ELSE brk,
                      t, ok,
                      IF r.attempted THEN Append(sent, r.msg) ELSE sent)

\* ha_sensor_config: unique_id, with SOLARMAN_PREFIX and SOLARMAN_SERIAL at
\* their default ""
MbUniqueId(reg) ==
    IF reg.legacy_unique_id # "" THEN reg.legacy_unique_id
    ELSE MB_DEVICE_ID \o "_" \o reg.name

\* client.publish(cfg_topic, json.dumps(cfg), retain=True), the payload cut
\* down to the key that tells the configs apart
MbConfigMsg(reg) ==
    [topic |-> DISCOVERY_PREFIX \o "/sensor/" \o MB_DEVICE_ID \o "/" \o reg.name \o "/config",
     payload |-> "{" \o "unique_id: " \o MbUniqueId(reg) \o "}",
     retain |-> TRUE]

\* client.publish(AVAIL_TOPIC, payload, retain=True)
MbAvailMsg(a) == [topic |-> MB_AVAIL_TOPIC, payload |-> a.payload, retain |-> a.retain]

\* publish_discovery(client): one config per register, then the availability
MbPublishDiscovery ==
    [i \in RegIdx |-> MbConfigMsg(REGISTERS[i])] \o << MbAvailMsg(Online) >>

\* what one poll cycle leaves for inspection: rx is the time of the last
\* cycle whose Reading was not empty, n the value of poll_count the cycle
\* ran with, seq counts the cycles begun, error says that the cycle ended
\* in the except branch, connects counts the calls of on_connect
MbNoObs == [rx |-> Epoch, groups |-> {}, asked |-> {}, failed |-> {}, n |-> 0, seq |-> 0,
            error |-> FALSE, connects |-> 0]

\* number of (re)connections to the broker followed
MaxConnects == 1

\* main() before modbus.connect()
MbInit ==
    /\ variant = "modbus"
    /\ now = Epoch
    /\ last_value = EmptyDict
    /\ last_ts = EmptyDict
    /\ broker = EmptyDict
    /\ ev = NoCall
    /\ stream = NoStream
    /\ obs = MbNoObs
    /\ pc = "connect"
    /\ bus = "none"
    /\ msg = NoFrame
    /\ last_can_rx = 0
    /\ last_heartbeat = 0
    /\ was_stale = FALSE
    /\ mqtt_connected = FALSE
    /\ announced = <<>>
    /\ availLast = NoAvail
    /\ iter = NoIter
    /\ ann = 0
    /\ availSent = NoAvail
    /\ poll_count = 0
    /\ reading = EmptyDict
    /\ args \in [loop : BOOLEAN]

\* main() has returned or called sys.exit: "exit0" is sys.exit(0), "exit1"
\* is sys.exit(1), "done" is the end of main()
MbExited == pc \in {"exit0", "exit1", "done"}

\* modbus.connect() returns True
MbConnectOk ==
    /\ pc = "connect"
    /\ pc' = "mqtt"
    /\ bus' = "open"
    /\ iter' = NoIter
    /\ UNCHANGED <<variant, now, last_value, last_ts, broker, ev, stream, obs,
                   msg, last_can_rx, last_heartbeat, was_stale, mqtt_connected,
                   announced, availLast, ann, availSent, poll_count, reading, args>>

\* "if not modbus.connect(): ... sys.exit(1)"
MbConnectFail ==
    /\ pc = "connect"
    /\ pc' = "exit1"
    /\ iter' = NoIter
    /\ UNCHANGED <<variant, now, last_value, last_ts, broker, ev, stream, obs,
                   bus, msg, last_can_rx, last_heartbeat, was_stale, mqtt_connected,
                   announced, availLast, ann, availSent, poll_count, reading, args>>

\* client.connect returns; loop_start, Publisher(client), signal handlers,
\* poll_count = 0
MbMqttUp ==
    /\ pc = "mqtt"
    /\ pc' = "loop"
    /\ poll_count' = 0
    /\ iter' = NoIter
    /\ UNCHANGED <<variant, now, last_value, last_ts, broker, ev, stream, obs,
                   bus, msg, last_can_rx, last_heartbeat, was_stale, mqtt_connected,
                   announced, availLast, ann, availSent, reading, args>>

\* client.connect raises: sys.exit(1)
MbMqttFail ==
    /\ pc = "mqtt"
    /\ pc' = "exit1"
    /\ iter' = NoIter
    /\ UNCHANGED <<variant, now, last_value, last_ts, broker, ev, stream, obs,
                   bus, msg, last_can_rx, last_heartbeat, was_stale, mqtt_connected,
                   announced, availLast, ann, availSent, poll_count, reading, args>>

\* on_connect is called on the broker client's thread; with rc 0 it goes
\* on to publish_discovery
MbOnConnect ==
    /\ pc = "loop"
    /\ ann = 0
    /\ obs.connects < MaxConnects
    /\ obs' = [obs EXCEPT !.connects = @ + 1]
    /\ \E rc \in {0, 5} :
         IF rc = 0
         THEN /\ ann' = 1
              /\ announced' = <<>>
         ELSE UNCHANGED <<ann, announced>>
    /\ iter' = NoIter
    /\ UNCHANGED <<variant, now, last_value, last_ts, broker, ev, stream,
                   pc, bus, msg, last_can_rx, last_heartbeat, was_stale, mqtt_connected,
                   availLast, availSent, poll_count, reading, args>>

\* one client.publish call of publish_discovery, on the broker client's
\* thread; when it raises, the exception leaves on_connect
MbAnnounce ==
    /\ pc = "loop"
    /\ ann # 0
    /\ \E ok \in BOOLEAN :
       LET m == MbPublishDiscovery[ann]
           isAvail == m.topic = MB_AVAIL_TOPIC
       IN  /\ ann' = IF ok /\ ann < Len(MbPublishDiscovery) THEN ann + 1 ELSE 0
           /\ announced' = IF ok /\ ~isAvail THEN Append(announced, m) ELSE announced
           /\ availSent' = IF isAvail THEN Online ELSE availSent
           /\ availLast' = IF isAvail /\ ok THEN Online ELSE availLast
           /\ iter' = [avail |-> IF isAvail THEN <<Online>> ELSE <<>>,
                       offered |-> <<>>, sent |-> <<m>>, raised |-> ~ok]
    /\ UNCHANGED <<variant, now, last_value, last_ts, broker, ev, stream, obs,
                   pc, bus, msg, last_can_rx, last_heartbeat, was_stale,
                   mqtt_connected, poll_count, reading, args>>

\* the outcomes of the reads of one cycle: out[i] for REGISTERS[i]; a
\* register that is not read has no outcome
MbOutcomes(groups) ==
    { [i \in RegIdx |-> IF i \in good
                        THEN CHOOSE o \in ReadOutcomes(REGISTERS[i]) : o.ok
                        ELSE ReadFailed] : good \in SUBSET Asked(groups) }

\* the poll cycle as the ghost record remembers it
MbObserved(groups, out, values, error) ==
    [rx |-> IF DOMAIN values # {} THEN now ELSE obs.rx,
     groups |-> groups,
     asked |-> Asked(groups),
     failed |-> {i \in Asked(groups) : ~out[i].ok},
     n |-> poll_count,
     seq |-> obs.seq + 1,
     error |-> error,
     connects |-> obs.connects]

\* "# Cleanup" at the end of main(): modbus.close(), time.sleep(0.5),
\* publish 'offline', disconnect
MbCleanup(ok) ==
    /\ pc' = "done"
    /\ bus' = "closed"
    /\ now' = now + MbFlushSleep
    /\ availSent' = Offline
    /\ availLast' = AvailAfter(availLast, <<Offline>>, ok)
    /\ ann' = 0

\* one pass of the while loop without an exception: the scan groups, the
\* poll, publish_mqtt_data, then either the break and the cleanup, or
\* poll_count += 1 and the sleep
MbCycle ==
    /\ pc = "loop"
    /\ poll_count < MaxPolls
    /\ \E out \in MbOutcomes(Groups(poll_count)), ok \in BOOLEAN :
       \E values \in {PollRegisters(Groups(poll_count), out)} :
       \E r \in {PublishAllOf("modbus", MbCalls(1, values), last_value, last_ts, broker,
                              now, ok, <<>>)} :
          /\ reading' = values
          /\ obs' = MbObserved(Groups(poll_count), out, values, FALSE)
          /\ last_value' = r.last_value
          /\ last_ts' = r.last_ts
          /\ broker' = r.broker
          /\ IF args.loop
             THEN /\ poll_count' = poll_count + 1
                  /\ now' = now + MbInterval
                  /\ iter' = [avail |-> <<>>,
                              offered |-> [i \in 1 .. Len(MbCalls(1, values)) |->
                                              MbCalls(1, values)[i].topic],
                              sent |-> r.sent, raised |-> FALSE]
                  /\ UNCHANGED <<pc, bus, availSent, availLast, ann>>
             ELSE /\ MbCleanup(ok)
                  /\ iter' = [avail |-> <<Offline>>,
                              offered |-> [i \in 1 .. Len(MbCalls(1, values)) |->
                                              MbCalls(1, values)[i].topic],
                              sent |-> r.sent, raised |-> FALSE]
                  /\ UNCHANGED poll_count
    /\ UNCHANGED <<variant, ev, stream, msg, last_can_rx, last_heartbeat, was_stale,
                   mqtt_connected, announced, args>>

\* number of passes ending in the except branch that are followed
MaxErrors == 1

\* one pass of the while loop that ends in "except Exception": the report
\* printed between the poll and publish_mqtt_data raises (print on a closed
\* stdout); nothing is published, poll_count is not advanced
MbCycleError ==
    /\ pc = "loop"
    /\ poll_count < MaxPolls
    /\ obs.seq - poll_count < MaxErrors
    /\ \E out \in MbOutcomes(Groups(poll_count)), ok \in BOOLEAN :
       \E values \in {PollRegisters(Groups(poll_count), out)} :
          /\ reading' = values
          /\ obs' = MbObserved(Groups(poll_count), out, values, TRUE)
          /\ IF args.loop
             THEN /\ now' = now + MbErrorSleep
                  /\ iter' = [avail |-> <<>>, offered |-> <<>>, sent |-> <<>>,
                              raised |-> TRUE]
                  /\ UNCHANGED <<pc, bus, availSent, availLast, ann>>
             ELSE /\ MbCleanup(ok)
                  /\ iter' = [avail |-> <<Offline>>, offered |-> <<>>, sent |-> <<>>,
                              raised |-> TRUE]
    /\ UNCHANGED <<variant, last_value, last_ts, broker, ev, stream, msg, last_can_rx,
                   last_heartbeat, was_stale, mqtt_connected, announced, poll_count, args>>

\* shutdown(signum, frame), the SIGTERM / SIGINT handler: publish 'offline',
\* disconnect, sys.exit(0)
MbShutdown ==
    /\ pc = "loop"
    /\ pc' = "exit0"
    /\ \E ok \in BOOLEAN :
         /\ availLast' = AvailAfter(availLast, <<Offline>>, ok)
         /\ iter' = [avail |-> <<Offline>>, offered |-> <<>>, sent |-> <<>>,
                     raised |-> ~ok]
    /\ availSent' = Offline
    /\ ann' = 0
    /\ UNCHANGED <<variant, now, last_value, last_ts, broker, ev, stream, obs,
                   bus, msg, last_can_rx, last_heartbeat, was_stale, mqtt_connected,
                   announced, poll_count, reading, args>>

MbNext ==
    \/ MbConnectOk
    \/ MbConnectFail
    \/ MbMqttUp
    \/ MbMqttFail
    \/ MbOnConnect
    \/ MbAnnounce
    \/ MbCycle
    \/ MbCycleError
    \/ MbShutdown

SpecModbus == MbInit /\ [][MbNext]_vars

(***************************************************************************)
(* Home Assistant discovery: the unique id of ha_sensor_config, as a       *)
(* function of the bridge's configuration and of the sensor                *)
(***************************************************************************)
\* SOLARMAN_NAME_MAP, for the registers followed
SOLARMAN_NAME_MAP ==
    [name \in {"pv1_power", "total_production", "battery_temperature", "battery_soc"} |->
        CASE name = "pv1_power" -> "PV1 Power"
          [] name = "total_production" -> "Total Production"
          [] name = "battery_temperature" -> "Battery Temperature"
          [] OTHER -> "Battery SOC"]

\* name and legacy_unique_id of the registers followed: REGISTERS, one more
\* register of the Solarman map, and two registers outside it
IdRegisters ==
    {[name |-> REGISTERS[i].name, legacy_unique_id |-> REGISTERS[i].legacy_unique_id] :
        i \in RegIdx}
    \cup {[name |-> "battery_temperature", legacy_unique_id |-> ""],
          [name |-> "max_sell_power", legacy_unique_id |-> "deye-tcp-max-sell-power"],
          [name |-> "sell_mode_enabled", legacy_unique_id |-> ""]}

\* DEVICE_ID, SOLARMAN_PREFIX and SOLARMAN_SERIAL after the command line and
\* the environment have been read
IdConfigs ==
    [device_id : {MB_DEVICE_ID, "deye_inverter_test"},
     solarman_prefix : {"", "deye"},
     solarman_serial : {"", "2957831690"}]

UniqueId_NoLegacy(cfg, reg) ==
    IF /\ cfg.solarman_prefix # ""
       /\ cfg.solarman_serial # ""
       /\ reg.name \in DOMAIN SOLARMAN_NAME_MAP
    THEN cfg.solarman_prefix \o "_" \o cfg.solarman_serial \o "_" \o SOLARMAN_NAME_MAP[reg.name]
    ELSE cfg.device_id \o "_" \o reg.name

UniqueId_NoSolarman(cfg, reg) ==
    IF reg.legacy_unique_id # "" THEN reg.legacy_unique_id
    ELSE cfg.device_id \o "_" \o reg.name

\* ha_sensor_config of the Modbus bridge: unique_id
UniqueId(cfg, reg) ==
    IF reg.legacy_unique_id # "" THEN reg.legacy_unique_id
    ELSE IF /\ cfg.solarman_prefix # ""
            /\ cfg.solarman_serial # ""
            /\ reg.name \in DOMAIN SOLARMAN_NAME_MAP
         THEN cfg.solarman_prefix \o "_" \o cfg.solarman_serial \o "_"
                 \o SOLARMAN_NAME_MAP[reg.name]
         ELSE cfg.device_id \o "_" \o reg.name

\* one ha_sensor_config call: of the Modbus bridge for a register under a
\* configuration, or of the CAN bridge for a sensor of its table, which
\* has no legacy id and no Solarman setting
IdInit ==
    /\ PubInit /\ stream = NoStream /\ CanIdle
    /\ \/ /\ variant = "modbus"
          /\ \E cfg \in IdConfigs, reg \in IdRegisters :
               obs = [cfg |-> cfg, reg |-> reg, unique_id |-> "", done |-> FALSE]
       \/ /\ variant = "can"
          /\ \E i \in 1 .. Len(SensorList) :
               obs = [cfg |-> [device_id |-> DEVICE_ID, solarman_prefix |-> "",
                               solarman_serial |-> ""],
                      reg |-> [name |-> SensorList[i], legacy_unique_id |-> ""],
                      unique_id |-> "", done |-> FALSE]

\* cfg["unique_id"] as ha_sensor_config of the bridge sets it
Identify ==
    /\ ~obs.done
    /\ obs' = [obs EXCEPT !.done = TRUE,
                          !.unique_id = IF variant = "can"
                                        THEN DEVICE_ID \o "_" \o obs.reg.name
                                        ELSE UniqueId(obs.cfg, obs.reg)]
    /\ UNCHANGED <<variant, now, last_value, last_ts, broker, ev, stream>>
    /\ UNCHANGED canVars

IdNext == Identify

SpecIdentity == IdInit /\ [][IdNext]_vars

(***************************************************************************)
(* CAN bridge: the decoder on one frame, for every combination of field    *)
(* values around the sanity windows                                        *)
(***************************************************************************)
\* 16-bit field values: below, at and above the bounds of the windows
\* (0.1 V, 0.1 A, %, 0.1 C and mV)
FieldRaws == {0, 100, 101, 300, 486, 500, 651, 3300, 4501, 5001}

\* the eight data bytes that carry four little-endian 16-bit fields
FieldBytes(f) ==
    << f[1] % 256, f[1] \div 256, f[2] % 256, f[2] \div 256,
       f[3] % 256, f[3] \div 256, f[4] % 256, f[4] \div 256 >>

\* the frames with decoded fields: 0x351, 0x355, 0x370
FieldFrameIds == {849, 853, 880}

\* one frame with its four fields, and what the decoder hands to the
\* publisher for it
FrameInit ==
    /\ PubInit /\ variant = "can" /\ stream = NoStream /\ CanIdle
    /\ \E arb \in FieldFrameIds, f \in [1 .. 4 -> FieldRaws] :
         obs = [arb |-> arb, f |-> f, calls |-> <<>>, cont |-> FALSE, done |-> FALSE]

\* the decoding branch of the main loop on the frame
DecodeOne ==
    /\ ~obs.done
    /\ \E r \in {DecodeFrame(obs.arb, FieldBytes(obs.f))} :
         obs' = [obs EXCEPT !.calls = r.calls, !.cont = r.cont, !.done = TRUE]
    /\ UNCHANGED <<variant, now, last_value, last_ts, broker, ev, stream>>
    /\ UNCHANGED canVars

FrameNext == DecodeOne

SpecFrame == FrameInit /\ [][FrameNext]_vars

(***************************************************************************)
(* Pylontech RS485 frames (pylon_rs485_monitor.py, rs485_simple.py,        *)
(* pylon_rs485_responder.py).  A Python str is a sequence of one-character *)
(* strings.                                                                *)
(***************************************************************************)
\* int(c, 16) of one hex digit
HexVal(c) == CHOOSE n \in 0 .. 15 : HexDigit(n) = c

\* f"{n:X}"
RECURSIVE HexStr(_)
HexStr(n) == IF n < 16 THEN << HexDigit(n) >> ELSE HexStr(n \div 16) \o << HexDigit(n % 16) >>

\* f"{n:0wX}": at least w digits
RECURSIVE FmtHex(_, _)
FmtHex(n, w) == IF w <= Len(HexStr(n)) THEN HexStr(n) ELSE << "0" >> \o FmtHex(n, w - 1)

\* int(s, 16) of a str of hex digits
RECURSIVE IntHex(_)
IntHex(str) ==
    IF str = <<>> THEN 0
    ELSE IntHex(SubSeq(str, 1, Len(str) - 1)) * 16 + HexVal(str[Len(str)])

\* ord(c) for the characters of a frame
Ord(c) ==
    CASE c = "~" -> 126
      [] c = "\r" -> 13
      [] HexVal(c) < 10 -> 48 + HexVal(c)
      [] OTHER -> 55 + HexVal(c)

\* sum(ord(c) for c in str), summed by halves to keep the recursion shallow
RECURSIVE SumOrd(_)
SumOrd(str) ==
    IF str = <<>> THEN 0
    ELSE IF Len(str) = 1 THEN Ord(str[1])
    ELSE SumOrd(SubSeq(str, 1, Len(str) \div 2))
         + SumOrd(SubSeq(str, Len(str) \div 2 + 1, Len(str)))

\* sum(int(c, 16) for c in str)
RECURSIVE SumHex(_)
SumHex(str) == IF str = <<>> THEN 0 ELSE HexVal(Head(str)) + SumHex(Tail(str))

\* (~total + 1) & mask, for mask + 1 = modulus
NegMod(total, modulus) == (modulus - (total % modulus)) % modulus

\* calc_chksum: f"{(~total + 1) & 0xFFFF:04X}"
calc_chksum(frame_content) == FmtHex(NegMod(SumOrd(frame_content), 65536), 4)

LenId_NoChecksum(info_len) == << "0" >> \o FmtHex(info_len, 3)

\* lenid of make_command and make_response: the checksum nibble over the
\* three digits of len_hex, then len_hex
LenId(info_len) ==
    << HexDigit(NegMod(SumHex(FmtHex(info_len, 3)), 16)) >> \o FmtHex(info_len, 3)

\* calc_lchksum of rs485_simple.py: over the four digits of f"{length:04X}"
calc_lchksum(length) == NegMod(SumHex(FmtHex(length, 4)), 16)

\* lenid of make_command of rs485_simple.py
LenIdSimple(info_len) == << HexDigit(calc_lchksum(info_len)) >> \o FmtHex(info_len, 3)

\* make_command(addr, cid2, info), before .encode('ascii')
make_command(addr, cid2, info) ==
    LET frame == << "2", "0" >> \o FmtHex(addr, 2) \o << "4", "6" >> \o FmtHex(cid2, 2)
                    \o LenId(Len(info)) \o info
    IN  << "~" >> \o frame \o calc_chksum(frame) \o << "\r" >>

\* str.strip() on a frame: the only whitespace is the carriage return
RECURSIVE Strip(_)
Strip(text) ==
    IF text = <<>> THEN text
    ELSE IF Head(text) = "\r" THEN Strip(Tail(text))
    ELSE IF text[Len(text)] = "\r" THEN Strip(SubSeq(text, 1, Len(text) - 1))
    ELSE text

\* parse_request returned None
NoRequest == [some |-> FALSE, addr |-> 0, cid1 |-> 0, cid2 |-> 0, lenid |-> <<>>,
              info |-> <<>>, chksum |-> <<>>]

\* parse_request(frame) of the responder
parse_request(frame) ==
    LET text == Strip(frame)
        content == Tail(text)
    IN  IF text = <<>> \/ Head(text) # "~" \/ Len(text) < 18 THEN NoRequest
        ELSE [some |-> TRUE,
              addr |-> IntHex(SubSeq(content, 3, 4)),
              cid1 |-> IntHex(SubSeq(content, 5, 6)),
              cid2 |-> IntHex(SubSeq(content, 7, 8)),
              lenid |-> SubSeq(content, 9, 12),
              info |-> IF Len(content) > 16 THEN SubSeq(content, 13, Len(content) - 4)
                       ELSE <<>>,
              chksum |-> SubSeq(content, Len(content) - 3, Len(content))]

\* addresses and CID2 codes followed, out of 0 .. 255
CodecBytes == {0, 1, 2, 9, 10, 15, 16, 66, 68, 79, 127, 128, 240, 255}

\* INFO strings followed: empty, one and two digits, and longer ones
CodecInfos == { <<>>, << "0" >>, << "0", "2" >>, << "F", "F" >>,
                << "0", "1", "2", "3", "4", "5", "6", "7", "8", "9",
                   "A", "B", "C", "D", "E", "F", "0" >> }

\* a request to be built, sent and parsed
CodecInit ==
    /\ PubInit /\ variant = "rs485" /\ stream = NoStream /\ CanIdle
    /\ \E addr \in CodecBytes, cid2 \in CodecBytes, info \in CodecInfos :
         obs = [addr |-> addr, cid2 |-> cid2, info |-> info, frame |-> <<>>,
                req |-> NoRequest, stage |-> "request"]

\* the monitor builds the frame
Encode ==
    /\ obs.stage = "request"
    /\ obs' = [obs EXCEPT !.frame = make_command(obs.addr, obs.cid2, obs.info),
                          !.stage = "sent"]
    /\ UNCHANGED <<variant, now, last_value, last_ts, broker, ev, stream>>
    /\ UNCHANGED canVars

\* the responder parses it
Parse ==
    /\ obs.stage = "sent"
    /\ obs' = [obs EXCEPT !.req = parse_request(obs.frame), !.stage = "parsed"]
    /\ UNCHANGED <<variant, now, last_value, last_ts, broker, ev, stream>>
    /\ UNCHANGED canVars

CodecNext ==
    \/ Encode
    \/ Parse

SpecCodec == CodecInit /\ [][CodecNext]_vars

\* INFO lengths that LENID can carry
InfoLens == 0 .. 4095

\* an INFO length whose LENID is to be built
LenIdInit ==
    /\ PubInit /\ variant = "rs485" /\ stream = NoStream /\ CanIdle
    /\ \E n \in InfoLens :
         obs = [info_len |-> n, lenid |-> <<>>, simple |-> <<>>, done |-> FALSE]

\* the frame builders compute LENID
BuildLenId ==
    /\ ~obs.done
    /\ obs' = [obs EXCEPT !.lenid = LenId(obs.info_len),
                          !.simple = LenIdSimple(obs.info_len),
                          !.done = TRUE]
    /\ UNCHANGED <<variant, now, last_value, last_ts, broker, ev, stream>>
    /\ UNCHANGED canVars

LenIdNext == BuildLenId

SpecLenId == LenIdInit /\ [][LenIdNext]_vars

(***************************************************************************)
(* RS485 monitor: decode_alarm_response, the severity lists.  The other    *)
(* keys of the result (cell and temperature status, balancing, status,     *)
(* debug) do not enter warnings, protections or alarms.                    *)
(***************************************************************************)
\* data_hex[a:b] where the code has checked b <= len(data_hex)
Slice(str, a, b) == SubSeq(str, a + 1, b)

\* v & mask for a one-bit mask
BitSet(v, mask) == (v \div mask) % 2 = 1

\* the appends of "if v & mask: list.append(name)" for a table of
\* (mask, name) pairs, in the order of the code
RECURSIVE Flagged(_, _)
Flagged(v, table) ==
    IF table = <<>> THEN <<>>
    ELSE (IF BitSet(v, Head(table)[1]) THEN << Head(table)[2] >> ELSE <<>>)
         \o Flagged(v, Tail(table))

\* the result dict as it is initialised
NoAlarmResult ==
    [warnings |-> <<>>, protections |-> <<>>, alarms |-> <<>>,
     balancing_cells |-> <<>>, balance_on |-> FALSE, has_state |-> FALSE, state_raw |-> 0]

\* the appends of "for bit in range(8)" over balance1_8 and balance9_16
RECURSIVE BalanceBits(_, _, _)
BalanceBits(balance1_8, balance9_16, bit) ==
    IF bit > 7 THEN <<>>
    ELSE (IF (balance1_8 \div (2 ^ bit)) % 2 = 1 THEN << bit + 1 >> ELSE <<>>)
         \o (IF (balance9_16 \div (2 ^ bit)) % 2 = 1 THEN << bit + 9 >> ELSE <<>>)
         \o BalanceBits(balance1_8, balance9_16, bit + 1)

BalancingCells_Always(balance_on, balance1_8, balance9_16) ==
    BalanceBits(balance1_8, balance9_16, 0)

\* "if result['status'].get('balance_on')": the cells whose balance bit is set
BalancingCells(balance_on, balance1_8, balance9_16) ==
    IF balance_on THEN BalanceBits(balance1_8, balance9_16, 0) ELSE <<>>

Alarms_WithWarnings(warnings, protections) == warnings \o protections

\* result['alarms'] = list(result['protections'])
Alarms(warnings, protections) == protections

\* decode_alarm_response(data_hex): warnings, protections, alarms, the
\* balancing cells with the balance-on flag, and the operating state byte
DecodeAlarm(data_hex) ==
    IF Len(data_hex) < 10 THEN NoAlarmResult
    ELSE
    LET n == Len(data_hex)
        num_cells == IntHex(Slice(data_hex, 4, 6))
        temp_count_pos == 6 + num_cells * 2
    IN  IF ~(temp_count_pos + 2 <= n) THEN NoAlarmResult
        ELSE
        LET num_temps == IntHex(Slice(data_hex, temp_count_pos, temp_count_pos + 2))
            status_pos == temp_count_pos + 2 + num_temps * 2
            ext_bit_start == status_pos + 6
            current ==
                IF status_pos + 2 <= n
                   /\ IntHex(Slice(data_hex, status_pos, status_pos + 2)) = 2
                THEN << "charge_overcurrent" >> ELSE <<>>
            voltage ==
                IF ~(status_pos + 4 <= n) THEN <<>>
                ELSE IF IntHex(Slice(data_hex, status_pos + 2, status_pos + 4)) = 1
                     THEN << "pack_undervolt" >>
                ELSE IF IntHex(Slice(data_hex, status_pos + 2, status_pos + 4)) = 2
                     THEN << "pack_overvolt" >>
                ELSE <<>>
            has_flags == ext_bit_start + 10 <= n
            voltage_status ==
                IF has_flags
                THEN IntHex(Slice(data_hex, ext_bit_start + 8, ext_bit_start + 10))
                ELSE 0
            warnings ==
                Flagged(voltage_status,
                        << <<1, "cell_overvolt_alarm">>, <<2, "cell_overvolt_protect">>,
                           <<4, "cell_undervolt_alarm">>, <<16, "pack_overvolt_alarm">>,
                           <<32, "pack_overvolt_protect">>, <<64, "pack_undervolt_alarm">> >>)
            protections ==
                current \o voltage
                \o Flagged(voltage_status,
                           << <<8, "cell_undervolt_protect">>,
                              <<128, "pack_undervolt_protect">> >>)
            balance_on ==
                /\ ext_bit_start + 2 <= n
                /\ IntHex(Slice(data_hex, ext_bit_start, ext_bit_start + 2)) % 2 = 1
            balancing_cells ==
                IF ext_bit_start + 22 <= n
                THEN BalancingCells(balance_on,
                        IntHex(Slice(data_hex, ext_bit_start + 18, ext_bit_start + 20)),
                        IntHex(Slice(data_hex, ext_bit_start + 20, ext_bit_start + 22)))
                ELSE <<>>
        IN  [warnings |-> warnings, protections |-> protections,
             alarms |-> Alarms(warnings, protections),
             balancing_cells |-> balancing_cells,
             balance_on |-> balance_on,
             has_state |-> TRUE,
             state_raw |-> IntHex(Slice(data_hex, n - 2, n))]

\* status bytes followed for the current, the pack voltage and the voltage
\* flags
AlarmBytes == {0, 1, 2, 8, 15, 128, 255}

\* an alarm INFO of one cell and one temperature sensor, both normal, with
\* the three status bytes, cut after cut characters
AlarmInfo(current, voltage, flags, cut) ==
    SubSeq(<< "0", "0", "0", "0", "0", "1", "0", "0", "0", "1", "0", "0" >>
           \o FmtHex(current, 2) \o FmtHex(voltage, 2) \o << "0", "B" >>
           \o << "0", "1", "0", "0", "0", "0", "0", "0" >> \o FmtHex(flags, 2),
           1, cut)

\* lengths at which the response is cut: complete is 28
AlarmCuts == {0, 8, 10, 12, 14, 16, 26, 28}

\* an alarm-info INFO string to decode
AlarmInit ==
    /\ PubInit /\ variant = "rs485" /\ stream = NoStream /\ CanIdle
    /\ \E c \in AlarmBytes, v \in AlarmBytes, f \in AlarmBytes, cut \in AlarmCuts :
         obs = [data_hex |-> AlarmInfo(c, v, f, cut), result |-> NoAlarmResult,
                done |-> FALSE]

DecodeAlarmInfo ==
    /\ ~obs.done
    /\ obs' = [obs EXCEPT !.result = DecodeAlarm(obs.data_hex), !.done = TRUE]
    /\ UNCHANGED <<variant, now, last_value, last_ts, broker, ev, stream>>
    /\ UNCHANGED canVars

SpecAlarm == AlarmInit /\ [][DecodeAlarmInfo]_vars

(***************************************************************************)
(* RS485 monitor: decode_analog_response, send_command, read_battery, and  *)
(* the responder's make_response.  The result dict of the decoder is a     *)
(* record with the set of its keys; a key that is absent has the value 0   *)
(* or the empty list.                                                      *)
(***************************************************************************)
NoAnalog ==
    [keys |-> {}, header |-> <<>>, cells |-> <<>>, temps |-> <<>>, current |-> 0,
     voltage |-> 0, remain_ah |-> 0, total_ah |-> 0, cycles |-> 0]

\* how many of count fields of four digits the loop
\* "for _ in range(count): if i + 4 <= len(data_hex): ...; i += 4" reads
FieldsRead(n, i, count) == Min2(count, IF n >= i THEN (n - i) \div 4 ELSE 0)

\* the values it appends
Fields16(data_hex, i, count) ==
    [j \in 1 .. FieldsRead(Len(data_hex), i, count) |->
        IntHex(Slice(data_hex, i + 4 * (j - 1), i + 4 * j))]

\* the fields of decode_analog_response after the temperatures, from index
\* i on.  Each is read under "if i + 4 <= len(data_hex)" and then i moves
\* on, so a field is read exactly when it and all fields before it fit:
\* current at i, voltage at i + 4, remaining capacity at i + 8, the custom
\* byte at i + 12, total capacity at i + 14, cycles at i + 18.
AnalogTail(data_hex, i, result) ==
    LET n == Len(data_hex)
        raw == IF i + 4 <= n THEN IntHex(Slice(data_hex, i, i + 4)) ELSE 0
    IN  [result EXCEPT
           !.keys = @ \cup (IF i + 4 <= n THEN {"current"} ELSE {})
                      \cup (IF i + 8 <= n THEN {"voltage"} ELSE {})
                      \cup (IF i + 12 <= n THEN {"remain_ah"} ELSE {})
                      \cup (IF i + 18 <= n THEN {"total_ah"} ELSE {})
                      \cup (IF i + 22 <= n THEN {"cycles"} ELSE {}),
           !.current = IF raw > 32767 THEN (raw - 65536) * 10 ELSE raw * 10,
           !.voltage = IF i + 8 <= n THEN IntHex(Slice(data_hex, i + 4, i + 8)) * 10 ELSE 0,
           !.remain_ah = IF i + 12 <= n THEN IntHex(Slice(data_hex, i + 8, i + 12)) * 10 ELSE 0,
           !.total_ah = IF i + 18 <= n THEN IntHex(Slice(data_hex, i + 14, i + 18)) * 10 ELSE 0,
           !.cycles = IF i + 22 <= n THEN IntHex(Slice(data_hex, i + 18, i + 22)) ELSE 0]

\* the temperature block, from index i on: the count, then the values
\* round((raw - 2731) / 10.0, 1)
AnalogTemps(data_hex, i, result) ==
    IF ~(i + 2 <= Len(data_hex)) THEN AnalogTail(data_hex, i, result)
    ELSE AnalogTail(data_hex,
                    i + 2 + 4 * FieldsRead(Len(data_hex), i + 2,
                                           IntHex(Slice(data_hex, i, i + 2))),
                    [result EXCEPT
                       !.keys = @ \cup {"temps"},
                       !.temps = [j \in 1 .. FieldsRead(Len(data_hex), i + 2,
                                                        IntHex(Slice(data_hex, i, i + 2))) |->
                                    (IntHex(Slice(data_hex, i + 2 + 4 * (j - 1), i + 2 + 4 * j))
                                     - 2731) * 100]])

\* decode_analog_response(data_hex); voltages, currents, capacities and
\* temperatures in thousandths
DecodeAnalog(data_hex) ==
    IF 4 + 2 > Len(data_hex)
    THEN [NoAnalog EXCEPT !.keys = {"header"},
                          !.header = Slice(data_hex, 0, Min2(4, Len(data_hex)))]
    ELSE AnalogTemps(data_hex,
                     6 + 4 * FieldsRead(Len(data_hex), 6, IntHex(Slice(data_hex, 4, 6))),
                     [NoAnalog EXCEPT
                        !.keys = {"header", "cells"},
                        !.header = Slice(data_hex, 0, 4),
                        !.cells = Fields16(data_hex, 6, IntHex(Slice(data_hex, 4, 6)))])

\* the serial line's answer to one command: nothing, or the waiting bytes
NoAnswer == [some |-> FALSE, text |-> <<>>]

Answer(text) == [some |-> TRUE, text |-> text]

\* send_command returned None
NoInfo == [some |-> FALSE, info |-> <<>>]

send_command_AnyRtn(answer) ==
    LET resp_text == Strip(answer.text)
    IN  IF ~answer.some THEN NoInfo
        ELSE IF Len(resp_text) < 18 THEN NoInfo
        ELSE [some |-> TRUE, info |-> Slice(resp_text, 13, Len(resp_text) - 4)]

\* send_command(ser, cmd), given what the line answers
send_command(answer) ==
    LET resp_text == Strip(answer.text)
    IN  IF ~answer.some THEN NoInfo
        ELSE IF Len(resp_text) < 18 \/ Slice(resp_text, 7, 9) # << "0", "0" >> THEN NoInfo
        ELSE [some |-> TRUE, info |-> Slice(resp_text, 13, Len(resp_text) - 4)]

\* read_battery: "if data_hex: return decode_analog_response(data_hex)",
\* as the data record of ReadModules
read_battery(answer) ==
    LET data_hex == send_command(answer)
        data == DecodeAnalog(data_hex.info)
    IN  IF ~data_hex.some \/ data_hex.info = <<>>
        THEN [some |-> FALSE, cells |-> <<>>, has_current |-> FALSE, current |-> 0,
              has_voltage |-> FALSE, voltage |-> 0]
        ELSE [some |-> TRUE, cells |-> data.cells,
              has_current |-> "current" \in data.keys, current |-> data.current,
              has_voltage |-> "voltage" \in data.keys, voltage |-> data.voltage]

\* a response frame as a module sends it: VER, ADR, CID1, RTN, LENID, INFO,
\* checksum
ModuleFrame(addr, rtn, info) ==
    LET frame == << "2", "0" >> \o FmtHex(addr, 2) \o << "4", "6" >> \o FmtHex(rtn, 2)
                    \o LenId(Len(info)) \o info
    IN  << "~" >> \o frame \o calc_chksum(frame) \o << "\r" >>

\* make_response(addr, cid2, rtn, info) of the responder
make_response(addr, cid2, rtn, info) ==
    LET frame == << "2", "0" >> \o FmtHex(addr, 2) \o << "4", "6" >> \o FmtHex(cid2, 2)
                    \o FmtHex(rtn, 2) \o LenId(Len(info)) \o info
    IN  << "~" >> \o frame \o calc_chksum(frame) \o << "\r" >>

(***************************************************************************)
(* read_all_batteries: the stack summary of the RS485 monitor.  Voltages   *)
(* and currents are in thousandths, as everywhere in this module: a cell   *)
(* of int/1000.0 volts is a whole number, a module voltage or current of   *)
(* int/100.0 is a multiple of 10.                                          *)
(***************************************************************************)
NUM_BATTERIES == 3

RECURSIVE SeqSum(_)
SeqSum(s) == IF s = <<>> THEN 0 ELSE Head(s) + SeqSum(Tail(s))

SeqMin(s) == CHOOSE x \in {s[k] : k \in 1 .. Len(s)} : \A k \in 1 .. Len(s) : x <= s[k]

SeqMax(s) == CHOOSE x \in {s[k] : k \in 1 .. Len(s)} : \A k \in 1 .. Len(s) : x >= s[k]

\* round(num/den, ndigits) with step = 1000 / 10^ndigits: the multiples of
\* step nearest to the quotient.  The quotient is a binary float, so a
\* decimal tie goes to either neighbour (round(53.605, 2) is 53.61,
\* round(50.005, 2) is 50.0): both are kept.
Round(num, den, step) ==
    LET lo == (num \div (den * step)) * step
    IN  {c \in {lo, lo + step} : 2 * AbsDiff(c * den, num) <= step * den}

\* f"B{batt_num}C{cell}" for each balancing cell of one module
RECURSIVE BalancingTokens(_, _)
BalancingTokens(batt_num, cells) ==
    IF cells = <<>> THEN <<>>
    ELSE << "B" \o NatStr(batt_num) \o "C" \o NatStr(Head(cells)) >>
         \o BalancingTokens(batt_num, Tail(cells))

\* the accumulators before the loop over the modules
NoModules ==
    [batteries |-> <<>>, all_cells |-> <<>>, total_current |-> 0,
     all_balancing |-> <<>>, all_alarms |-> <<>>]

\* the loop over range(num_batteries): a module is taken only when its
\* analog query was answered with cells; its alarm answer is optional
RECURSIVE ReadModules(_, _, _)
ReadModules(batt_num, answers, acc) ==
    IF batt_num >= Len(answers) THEN acc
    ELSE
      LET data == answers[batt_num + 1].data
          alarm_data == answers[batt_num + 1].alarm_data
          current == IF data.has_current THEN data.current ELSE 0
          batt_data ==
            [id |-> batt_num,
             cells |-> data.cells,
             current |-> current,
             voltage |-> IF data.has_voltage THEN data.voltage ELSE SeqSum(data.cells),
             balancing_cells |-> IF alarm_data.some THEN alarm_data.balancing_cells ELSE <<>>,
             balancing_count |-> IF alarm_data.some THEN Len(alarm_data.balancing_cells) ELSE 0,
             alarms |-> IF alarm_data.some THEN alarm_data.alarms ELSE <<>>]
      IN  IF data.some /\ data.cells # <<>>
          THEN ReadModules(batt_num + 1, answers,
                 [batteries |-> Append(acc.batteries, batt_data),
                  all_cells |-> acc.all_cells \o data.cells,
                  total_current |-> acc.total_current + current,
                  all_balancing |-> acc.all_balancing \o
                      (IF alarm_data.some
                       THEN BalancingTokens(batt_num, alarm_data.balancing_cells)
                       ELSE <<>>),
                  all_alarms |-> acc.all_alarms \o
                      (IF alarm_data.some THEN alarm_data.alarms ELSE <<>>)])
          ELSE ReadModules(batt_num + 1, answers, acc)

\* result['stack'] stays the empty dict when no module answered
NoStack ==
    [num_batteries |-> 0, cell_min |-> 0, cell_max |-> 0, voltage |-> 0,
     current |-> 0, balancing_count |-> 0, balancing_cells |-> <<>>,
     alarms |-> {}]

\* a series stack: the module voltages add up
Stack_Series(acc) ==
    IF acc.all_cells = <<>> \/ acc.batteries = <<>> THEN {NoStack}
    ELSE
      { [num_batteries |-> Len(acc.batteries),
         cell_min |-> lo, cell_max |-> hi, voltage |-> v, current |-> c,
         balancing_count |-> Len(acc.all_balancing),
         balancing_cells |-> acc.all_balancing,
         alarms |-> {acc.all_alarms[k] : k \in 1 .. Len(acc.all_alarms)}] :
        lo \in Round(SeqMin(acc.all_cells), 1, 1),
        hi \in Round(SeqMax(acc.all_cells), 1, 1),
        v \in Round(SeqSum([k \in 1 .. Len(acc.batteries) |-> acc.batteries[k].voltage]),
                    1, 10),
        c \in Round(acc.total_current, 1, 10) }

\* the stack summary: every value the roundings can give
Stack(acc) ==
    IF acc.all_cells = <<>> \/ acc.batteries = <<>> THEN {NoStack}
    ELSE
      { [num_batteries |-> Len(acc.batteries),
         cell_min |-> lo, cell_max |-> hi, voltage |-> v, current |-> c,
         balancing_count |-> Len(acc.all_balancing),
         balancing_cells |-> acc.all_balancing,
         alarms |-> {acc.all_alarms[k] : k \in 1 .. Len(acc.all_alarms)}] :
        lo \in Round(SeqMin(acc.all_cells), 1, 1),
        hi \in Round(SeqMax(acc.all_cells), 1, 1),
        v \in Round(SeqSum([k \in 1 .. Len(acc.batteries) |-> acc.batteries[k].voltage]),
                    Len(acc.batteries), 10),
        c \in Round(acc.total_current, 1, 10) }

\* read_battery's answers: none, one without cells, one cut short after the
\* cells, and complete ones
AnalogAnswers ==
    { [some |-> FALSE, cells |-> <<>>, has_current |-> FALSE, current |-> 0,
       has_voltage |-> FALSE, voltage |-> 0],
      [some |-> TRUE, cells |-> <<>>, has_current |-> FALSE, current |-> 0,
       has_voltage |-> FALSE, voltage |-> 0],
      [some |-> TRUE, cells |-> << 3351, 3360 >>, has_current |-> FALSE, current |-> 0,
       has_voltage |-> FALSE, voltage |-> 0],
      [some |-> TRUE, cells |-> << 3350, 3350 >>, has_current |-> TRUE, current |-> 0,
       has_voltage |-> TRUE, voltage |-> 53600],
      [some |-> TRUE, cells |-> << 3340, 3372 >>, has_current |-> TRUE, current |-> -1510,
       has_voltage |-> TRUE, voltage |-> 53610] }

\* read_battery_alarms' answers
AlarmAnswers ==
    { [some |-> FALSE, balancing_cells |-> <<>>, alarms |-> <<>>],
      [some |-> TRUE, balancing_cells |-> << 2 >>,
       alarms |-> << "pack_undervolt_protect" >>],
      [some |-> TRUE, balancing_cells |-> << 1, 2 >>,
       alarms |-> << "pack_undervolt_protect", "charge_overcurrent_protect" >>] }

StackInit ==
    /\ PubInit /\ variant = "rs485" /\ stream = NoStream /\ CanIdle
    /\ \E answers \in [1 .. NUM_BATTERIES -> [data : AnalogAnswers, alarm_data : AlarmAnswers]] :
         obs = [answers |-> answers, batteries |-> <<>>, stack |-> NoStack,
                done |-> FALSE]

ReadAllBatteries ==
    /\ ~obs.done
    /\ LET acc == ReadModules(0, obs.answers, NoModules)
       IN  \E stack \in Stack(acc) :
             obs' = [obs EXCEPT !.batteries = acc.batteries, !.stack = stack,
                                !.done = TRUE]
    /\ UNCHANGED <<variant, now, last_value, last_ts, broker, ev, stream>>
    /\ UNCHANGED canVars

SpecStack == StackInit /\ [][ReadAllBatteries]_vars

(***************************************************************************)
(* RS485 monitor: one cycle of read_all_batteries over the serial line.    *)
(* Each module's analog and alarm commands are answered by nothing, by a   *)
(* cut frame, by an error frame (RTN 02) or by a complete frame.           *)
(***************************************************************************)
\* the four-digit fields of a list of 16-bit values
RECURSIVE HexFields(_)
HexFields(vals) == IF vals = <<>> THEN <<>> ELSE FmtHex(Head(vals), 4) \o HexFields(Tail(vals))

\* an analog INFO: header, battery number, cells (mV), temperatures
\* (0.1 K), current and voltage (raw 16 bit), remaining capacity, the
\* user-defined byte, total capacity, cycles
AnalogInfo(batt_num, cells, temps, current, voltage, remain, total, cycles) ==
    << "0", "0" >> \o FmtHex(batt_num, 2)
    \o FmtHex(Len(cells), 2) \o HexFields(cells)
    \o FmtHex(Len(temps), 2) \o HexFields(temps)
    \o FmtHex(current, 4) \o FmtHex(voltage, 4) \o FmtHex(remain, 4)
    \o << "0", "3" >> \o FmtHex(total, 4) \o FmtHex(cycles, 4)

\* an alarm INFO of one cell and one temperature sensor, both normal: the
\* pack voltage status, the count byte, extended status bytes 0 .. 10 with
\* the balance status in byte 0 and the balance flags in bytes 9 and 10, and
\* the operating state
AlarmInfoExt(voltage, balance_status, balance1_8, balance9_16, state) ==
    << "0", "0", "0", "0", "0", "1", "0", "0", "0", "1", "0", "0" >>
    \o << "0", "0" >> \o FmtHex(voltage, 2) \o << "0", "B" >>
    \o FmtHex(balance_status, 2)
    \o << "0", "0", "0", "0", "0", "0", "0", "0", "0", "0", "0", "0", "0", "0" >>
    \o << "0", "3" >> \o FmtHex(balance1_8, 2) \o FmtHex(balance9_16, 2)
    \o FmtHex(state, 2)

\* read_battery_alarms, as the alarm_data record of ReadModules
read_battery_alarms(answer) ==
    LET data_hex == send_command(answer)
        alarm_data == DecodeAlarm(data_hex.info)
    IN  IF ~data_hex.some \/ data_hex.info = <<>>
        THEN [some |-> FALSE, balancing_cells |-> <<>>, alarms |-> <<>>]
        ELSE [some |-> TRUE, balancing_cells |-> alarm_data.balancing_cells,
              alarms |-> alarm_data.alarms]

\* answers to the analog command, by kind
PollAnalog ==
    { [kind |-> "none", answer |-> NoAnswer],
      [kind |-> "short",
       answer |-> Answer(SubSeq(ModuleFrame(2, 0,
                      AnalogInfo(0, << 3350 >>, << 2981 >>, 0, 5360, 8000, 10000, 50)), 1, 17))],
      [kind |-> "rtn",
       answer |-> Answer(ModuleFrame(2, 2,
                      AnalogInfo(0, << 1, 9999 >>, << 2981 >>, 7777, 6000, 8000, 10000, 50)))],
      [kind |-> "a",
       answer |-> Answer(ModuleFrame(2, 0,
                      AnalogInfo(0, << 3350, 3360 >>, << 2981 >>, 250, 5360, 8000, 10000, 50)))],
      [kind |-> "b",
       answer |-> Answer(ModuleFrame(2, 0,
                      AnalogInfo(0, << 3340, 3372 >>, << 2981 >>, 65385, 5361, 8000, 10000, 50)))] }

\* answers to the alarm command
PollAlarm ==
    { NoAnswer,
      Answer(ModuleFrame(2, 0, AlarmInfoExt(1, 1, 3, 0, 2))) }

PollInit ==
    /\ PubInit /\ variant = "rs485" /\ stream = NoStream /\ CanIdle
    /\ \E answers \in [1 .. NUM_BATTERIES -> [analog : PollAnalog, alarm : PollAlarm]] :
         obs = [answers |-> answers, batteries |-> <<>>, stack |-> NoStack,
                done |-> FALSE]

\* read_all_batteries over the answers of the line
PollCycle ==
    /\ ~obs.done
    /\ \E data \in {[k \in 1 .. NUM_BATTERIES |->
                        [data |-> read_battery(obs.answers[k].analog.answer),
                         alarm_data |-> read_battery_alarms(obs.answers[k].alarm)]]} :
       \E acc \in {ReadModules(0, data, NoModules)} :
       \E stack \in Stack(acc) :
             obs' = [obs EXCEPT !.batteries = acc.batteries, !.stack = stack,
                                !.done = TRUE]
    /\ UNCHANGED <<variant, now, last_value, last_ts, broker, ev, stream>>
    /\ UNCHANGED canVars

SpecPoll == PollInit /\ [][PollCycle]_vars

(***************************************************************************)
(* The responder (pylon_rs485_responder.py) answering the monitor's analog *)
(* command: make_analog_response builds the frame, the monitor's           *)
(* send_command takes the INFO out of it, decode_analog_response decodes.  *)
(***************************************************************************)
\* FAKE_BATTERY; temp_c, current_a and voltage_v in thousandths
FAKE_BATTERY ==
    [num_cells |-> 16, cell_voltage_mv |-> 3350, num_temps |-> 4, temp_c |-> 25000,
     current_a |-> 0, soc_percent |-> 80, capacity_ah |-> 100, cycles |-> 50,
     voltage_v |-> 53600]

\* the INFO of make_analog_response, before make_response frames it
SimAnalogInfo(batt_num) ==
    LET b == FAKE_BATTERY
        current_10ma == (b.current_a * 100) \div 1000
    IN  AnalogInfo(batt_num,
                   [i \in 1 .. b.num_cells |-> b.cell_voltage_mv + ((i - 1) % 3) * 5 - 5],
                   [i \in 1 .. b.num_temps |-> ((b.temp_c + 273100) * 10) \div 1000],
                   IF current_10ma < 0 THEN current_10ma + 65536 ELSE current_10ma,
                   (b.voltage_v * 100) \div 1000,
                   (b.capacity_ah * b.soc_percent * 100) \div 100,
                   b.capacity_ah * 100,
                   b.cycles)

\* make_analog_response(addr, batt_num)
make_analog_response(addr, batt_num) == make_response(addr, 66, 0, SimAnalogInfo(batt_num))

\* battery numbers asked for
SimBattNums == 0 .. 7

SimInit ==
    /\ PubInit /\ variant = "rs485" /\ stream = NoStream /\ CanIdle
    /\ \E addr \in CodecBytes, batt_num \in SimBattNums :
         obs = [addr |-> addr, batt_num |-> batt_num, frame |-> <<>>,
                data_hex |-> NoInfo, data |-> NoAnalog, stage |-> "request"]

\* the responder answers the analog command
SimRespond ==
    /\ obs.stage = "request"
    /\ obs' = [obs EXCEPT !.frame = make_analog_response(obs.addr, obs.batt_num),
                          !.stage = "answered"]
    /\ UNCHANGED <<variant, now, last_value, last_ts, broker, ev, stream>>
    /\ UNCHANGED canVars

\* the monitor's read_battery on that answer
SimReceive ==
    /\ obs.stage = "answered"
    /\ \E data_hex \in {send_command(Answer(obs.frame))} :
         obs' = [obs EXCEPT !.data_hex = data_hex,
                            !.data = IF data_hex.some /\ data_hex.info # <<>>
                                     THEN DecodeAnalog(data_hex.info) ELSE NoAnalog,
                            !.stage = "received"]
    /\ UNCHANGED <<variant, now, last_value, last_ts, broker, ev, stream>>
    /\ UNCHANGED canVars

SimNext == SimRespond \/ SimReceive

SpecSim == SimInit /\ [][SimNext]_vars

(***************************************************************************)
(* The RS485 decoders on a response that was cut short: a complete analog  *)
(* or alarm INFO, and the same INFO cut after cut characters.              *)
(***************************************************************************)
TruncInfos ==
    { [kind |-> "analog",
       info |-> AnalogInfo(0, << 3350, 3360 >>, << 2981 >>, 65385, 5361, 8000, 10000, 50)],
      [kind |-> "analog",
       info |-> AnalogInfo(1, << 3340 >>, << 2981, 2990 >>, 250, 5360, 7900, 10000, 51)],
      [kind |-> "alarm", info |-> AlarmInfoExt(1, 1, 3, 0, 2)],
      [kind |-> "alarm", info |-> AlarmInfoExt(2, 0, 255, 1, 8)] }

TruncInit ==
    /\ PubInit /\ variant = "rs485" /\ stream = NoStream /\ CanIdle
    /\ \E t \in TruncInfos :
       \E cut \in 0 .. Len(t.info) :
         obs = [kind |-> t.kind, info |-> t.info, cut |-> cut,
                part |-> IF t.kind = "analog" THEN NoAnalog ELSE NoAlarmResult,
                whole |-> IF t.kind = "analog" THEN NoAnalog ELSE NoAlarmResult,
                done |-> FALSE]

\* the decoder on the cut INFO and on the complete one
TruncDecode ==
    /\ ~obs.done
    /\ obs' = [obs EXCEPT
                 !.part = IF obs.kind = "analog"
                          THEN DecodeAnalog(SubSeq(obs.info, 1, obs.cut))
                          ELSE DecodeAlarm(SubSeq(obs.info, 1, obs.cut)),
                 !.whole = IF obs.kind = "analog" THEN DecodeAnalog(obs.info)
                           ELSE DecodeAlarm(obs.info),
                 !.done = TRUE]
    /\ UNCHANGED <<variant, now, last_value, last_ts, broker, ev, stream>>
    /\ UNCHANGED canVars

SpecTrunc == TruncInit /\ [][TruncDecode]_vars

(***************************************************************************)
(* The alarm decoder on INFO strings that carry the balance status in      *)
(* extended status byte 0 and the per-cell balance flags in bytes 9 and    *)
(* 10.                                                                     *)
(***************************************************************************)
\* values of the balance status byte: bit 0 is balance-on
BalanceStatuses == {0, 1, 2, 3, 254, 255}

\* lengths at which the response is cut: complete is 42, the balance flags
\* end at 40
BalanceCuts == {20, 38, 40, 42}

BalanceInit ==
    /\ PubInit /\ variant = "rs485" /\ stream = NoStream /\ CanIdle
    /\ \E s \in BalanceStatuses, b1 \in AlarmBytes, b2 \in AlarmBytes, cut \in BalanceCuts :
         obs = [data_hex |-> SubSeq(AlarmInfoExt(0, s, b1, b2, 2), 1, cut),
                balance_status |-> s, balance1_8 |-> b1, balance9_16 |-> b2,
                result |-> NoAlarmResult, done |-> FALSE]

SpecBalance == BalanceInit /\ [][DecodeAlarmInfo]_vars


(***************************************************************************)
(* Properties of Publisher.publish                                         *)
(***************************************************************************)
\* a step in which publish was called
Called == ev' # ev /\ ev'.topic # ""

\* the dictionary key of the call just made / being made
EvKey == FullTopic(variant, ev.topic)
EvKeyNext == FullTopic(variant, ev'.topic)

\* C1: a call made less than min_interval after the last publish the broker
\* accepted for the topic never reaches the broker client, whatever the
\* value; hence two successive accepted publishes of a topic are at least
\* min_interval apart.
C1_MinIntervalFloor ==
    [][ (Called /\ EvKeyNext \in DOMAIN broker)
        => /\ (now - broker[EvKeyNext].ts < ev'.mi) => ~ev'.attempted
           /\ (broker'[EvKeyNext] # broker[EvKeyNext])
                 => broker'[EvKeyNext].ts - broker[EvKeyNext].ts >= ev'.mi ]_vars

\* C1 witness: a changed value was suppressed by the rate limit
C1_Witness ==
    /\ ev.topic # "" /\ ~ev.attempted
    /\ EvKey \in DOMAIN broker
    /\ now - broker[EvKey].ts < ev.mi
    /\ now > broker[EvKey].ts
    /\ StoreVal(variant, ev.value) # last_value[EvKey]

\* C2: when client.publish raises, publish returns False, no exception
\* leaves publish, and last_value and last_ts keep their values; the cache
\* changes only in a call whose broker publish succeeded.
C2_CacheOnlyOnSuccess ==
    [][ /\ (Called /\ ev'.attempted /\ ~ev'.ok)
           => (~ev'.ret /\ ~ev'.raised /\ last_value' = last_value /\ last_ts' = last_ts)
        /\ (last_value' # last_value \/ last_ts' # last_ts)
           => (Called /\ ev'.attempted /\ ev'.ok /\ ev'.ret) ]_vars

\* C2 witness: a broker failure on a topic that has a cache entry
C2_Witness ==
    /\ ev.topic # "" /\ ev.attempted /\ ~ev.ok /\ ~ev.ret
    /\ EvKey \in DOMAIN last_value
    /\ last_ts[EvKey] < now
    /\ last_value[EvKey] # StoreVal(variant, ev.value)

\* the publish decision as the claim C3 states it, in exact arithmetic
ClaimedDecision(prev_val, store_val, force_due, hyst) ==
    IF ~hyst.some
    THEN (prev_val # store_val) \/ force_due
    ELSE /\ IsFloat(store_val)
         /\ \/ force_due
            \/ ~IsFloat(prev_val)
            \/ AbsDiff(store_val.m, prev_val.m) >= hyst.h

\* C3: once min_interval has elapsed, publish attempts the broker publish
\* exactly when the stated decision holds (|value - previous| >= hysteresis
\* taken as a comparison of the decimal values).
C3_DecisionExact ==
    [][ (Called /\ ~(now - GetTs(last_ts, EvKeyNext) < ev'.mi))
        => (ev'.attempted <=>
              ClaimedDecision(GetVal(last_value, EvKeyNext), StoreVal(variant, ev'.value),
                              now - GetTs(last_ts, EvKeyNext) >= FORCE_PUBLISH_INTERVAL_S,
                              ev'.hyst)) ]_vars

\* C7 as stated: a call for a topic without a previous value always
\* reaches the broker client.
C7_FirstCallAlways ==
    [][ (Called /\ EvKeyNext \notin DOMAIN last_value) => ev'.attempted ]_vars

\* C7 amended: a call for a topic without a previous value reaches the
\* broker client whatever min_interval is, unless a hysteresis is given and
\* the value is not numeric; that call is suppressed.
C7_FirstCall ==
    [][ (Called /\ EvKeyNext \notin DOMAIN last_value)
        => (ev'.attempted <=> ~(ev'.hyst.some /\ ~IsFloat(StoreVal(variant, ev'.value)))) ]_vars

\* C7 witness: first call with the largest min_interval and a hysteresis
C7_Witness ==
    /\ ev.topic # "" /\ ev.attempted /\ ~ev.ok
    /\ EvKey \notin DOMAIN last_value
    /\ ev.mi = MIN_INTERVAL_S_SOC /\ ev.hyst.some

\* a str offered over a stored float, or an int/float over a stored str
TypeSwitch(value, prev_val) ==
    \/ value.k = "str" /\ prev_val.k = "float"
    \/ value.k \in {"int", "float"} /\ prev_val.k = "str"

\* C8 as stated: without hysteresis a type switch always publishes.
C8_TypeSwitchAlways ==
    [][ (Called /\ ~ev'.hyst.some /\ EvKeyNext \in DOMAIN last_value
           /\ TypeSwitch(ev'.value, last_value[EvKeyNext]))
        => ev'.attempted ]_vars

\* C8 amended: without hysteresis and once min_interval has elapsed, a value
\* whose canonical form is a str offered over a stored float, or one whose
\* canonical form is a float offered over a stored str, reaches the broker
\* client (the CAN bridge canonicalises a numeral str to a float).
C8_CanonicalTypeSwitch ==
    [][ (Called /\ ~ev'.hyst.some /\ EvKeyNext \in DOMAIN last_value
           /\ ~(now - last_ts[EvKeyNext] < ev'.mi)
           /\ StoreVal(variant, ev'.value).k # last_value[EvKeyNext].k)
        => ev'.attempted ]_vars

\* C8 witness: a type switch attempted before the force interval is due
C8_Witness ==
    /\ ev.topic # "" /\ ev.attempted /\ ~ev.ok /\ ~ev.hyst.some
    /\ EvKey \in DOMAIN last_value
    /\ StoreVal(variant, ev.value).k # last_value[EvKey].k
    /\ now - last_ts[EvKey] < FORCE_PUBLISH_INTERVAL_S


\* the key of the observed call site
StreamKey == FullTopic(variant, stream.topic)

\* every value offered so far is numeric and within h of the first one
WithinOfFirst(o, h) == o.has /\ o.allNum /\ o.hi - o.first <= h /\ o.first - o.lo <= h

\* every two values offered so far are numeric and less than h apart
PairwiseWithin(o, h) == o.has /\ o.allNum /\ o.hi - o.lo < h

\* the call just made was accepted by the broker less than the force
\* interval after the previous accepted publish of the call site
SecondPublishInWindow ==
    /\ Called
    /\ StreamKey \in DOMAIN broker
    /\ broker'[StreamKey] # broker[StreamKey]
    /\ broker'[StreamKey].ts - broker[StreamKey].ts < FORCE_PUBLISH_INTERVAL_S

\* C4 as stated: while every value offered is within h of the initial
\* value (and the broker accepts what it is handed), no two accepted
\* publishes fall within one force interval.
C4_QuietWithinOfInitial ==
    [][ (WithinOfFirst(obs', stream.hyst.h) /\ obs'.allOk) => ~SecondPublishInWindow ]_vars

\* C4 amended: while every two values offered differ by less than h, no two
\* accepted publishes fall within one force interval.
C4_QuietPairwise ==
    [][ PairwiseWithin(obs', stream.hyst.h) => ~SecondPublishInWindow ]_vars

\* C4 witness: after the forced refresh a different value within the band
\* is suppressed
C4_Witness ==
    /\ PairwiseWithin(obs, stream.hyst.h)
    /\ obs.hi # obs.lo
    /\ ev.topic # "" /\ ~ev.attempted
    /\ StreamKey \in DOMAIN broker
    /\ broker[StreamKey].ts = Epoch + FORCE_PUBLISH_INTERVAL_S
    /\ now - broker[StreamKey].ts >= stream.mi
    /\ StoreVal(variant, ev.value) # last_value[StreamKey]

C6_TwoPublishes ==
    obs.step = Len(ScriptVal)
        => obs.pubs = << [payload |-> "3.35", at |-> 0], [payload |-> "3.36", at |-> 5] >>


(***************************************************************************)
(* Properties of the CAN bridge supervisor                                 *)
(***************************************************************************)
\* the bridge waits: blocked in bus.recv, or retrying to open the bus after
\* a bus error
Waiting == pc = "recv" \/ (pc = "connect" /\ Started)

\* C9: wherever the running bridge waits, once more than STALE_TIMEOUT has
\* passed since the last valid frame it is Stale, and entering Stale hands
\* a retained 'offline' to the broker client.
C9_StaleInEveryState ==
    /\ [](( Waiting /\ now - last_can_rx > CAN_STALE_TIMEOUT_S ) => was_stale)
    /\ [][ (~was_stale /\ was_stale') => (iter'.avail # <<>> /\ iter'.avail[1] = Offline) ]_vars

\* a step of the loop body
Processed == pc = "got" /\ pc' = "recv"

\* C10: from Stale, the loop body that handles the next valid frame leaves
\* Stale and hands a retained 'online' to the broker client.
C10_RecoverOnValidFrame ==
    [][ (Processed /\ was_stale /\ ValidFrame(msg))
        => /\ ~was_stale'
           /\ last_can_rx' = now
           /\ iter'.avail # <<>>
           /\ iter'.avail[1] = Online ]_vars

\* C10 witness: the bridge was Stale for a while and has just recovered
C10_Witness ==
    /\ pc = "recv" /\ ~was_stale
    /\ last_can_rx = now
    /\ now - Epoch > CAN_STALE_TIMEOUT_S + RecvTimeout
    /\ last_heartbeat < now
    /\ iter.avail = <<Online>>
    /\ availLast = Online

\* C11: in every state in which the running CAN bridge is Stale, the last
\* availability payload it passed to the broker client is 'offline'.
C11_StaleMeansOffline ==
    (pc \in {"connect", "recv", "got"} /\ was_stale) => availSent = Offline

\* on_connect returns
AnnounceEnds == ann # 0 /\ ann' = 0

C13_NoStateDuringAnnounce ==
    [][ ~(ann # 0 /\ Processed /\ iter'.sent # <<>>) ]_vars

(***************************************************************************)
(* Properties of the Modbus bridge                                         *)
(***************************************************************************)
\* the value of the n-bit two's complement numeral with the bits of w
\* (half = 2^(n-1)): the top bit counts -half, the others as in w
TwosComplement(w, half) == (w % half) - half * (w \div half)

\* C20: int16 is the two's complement of the word and uint16 the word; the
\* 32-bit forms take the first word as the low one, uint32 = w0 + 65536*w1
\* and int32 its two's complement at 32 bits (the top bit is the top bit of
\* w1); low word 0xFFFF with high word 0 decodes to 65535 in both.
C20_RawDecoding ==
    obs.done =>
      LET w0 == obs.regs[1]
          w1 == obs.regs[2]
      IN  /\ obs.data_type = "int16" => obs.raw.hi * 65536 + obs.raw.lo = TwosComplement(w0, 32768)
          /\ obs.data_type = "uint16" => obs.raw = Big(0, w0)
          /\ obs.data_type = "uint32" => obs.raw = Big(w1, w0)
          /\ obs.data_type = "int32" => obs.raw = Big(TwosComplement(w1, 32768), w0)
          /\ (WordCount(obs.data_type) = 2 /\ w0 = 65535 /\ w1 = 0) => obs.raw = Big(0, 65535)

\* C20 witness: low word 0xFFFF, high word 0, read as int32
C20_Witness ==
    /\ obs.done /\ obs.data_type = "int32"
    /\ obs.regs = <<65535, 0>>
    /\ obs.raw = Big(0, 65535)



(***************************************************************************)
(* Properties of the Modbus bridge's supervisor                            *)
(***************************************************************************)
\* the step in which the SIGTERM / SIGINT handler runs
MbSignalled == pc = "loop" /\ pc' = "exit0"

\* C14: on SIGINT or SIGTERM the bridge publishes the retained 'offline',
\* disconnects the broker, closes the bus and exits: after the handler the
\* last availability handed to the client is 'offline' and the bus handle
\* is closed.
C14_ShutdownClosesBus ==
    [][ MbSignalled => (availSent' = Offline /\ Offline.retain /\ bus' = "closed") ]_vars

\* C15: a failed attempt to open the bus is followed by another attempt
\* after 5 s: the bridge stays before the connect, RetrySleep later, and
\* does not exit.
C15_RetryBusOpen ==
    [][ (pc = "connect" /\ bus' # "open") =>
          (pc' = "connect" /\ now' = now + RetrySleep /\ ~MbExited') ]_vars

\* C16: every bus handle that was opened is closed on every exit path: the
\* bridge is never gone with its bus handle open.
C16_ClosedOnEveryExit == MbExited => bus # "open"

\* C17: when the polls have yielded no valid reading for longer than the
\* stale timeout while the process keeps running, the availability handed
\* to the broker is 'offline'.
C17_StalePublishesOffline ==
    (pc = "loop" /\ obs.seq > 0 /\ now - obs.rx > CAN_STALE_TIMEOUT_S) => availSent = Offline


\* a step in which the while loop makes one pass
MbPolled == pc = "loop" /\ obs'.seq = obs.seq + 1

C19_FailuresIsolated ==
    [][ MbPolled =>
          /\ DOMAIN reading' =
                {REGISTERS[i].name : i \in Asked(Groups(poll_count)) \ obs'.failed}
          /\ ~obs'.error =>
                /\ ~iter'.raised
                /\ Len(iter'.offered) = Cardinality(DOMAIN reading')
                /\ {iter'.offered[k] : k \in 1 .. Len(iter'.offered)} = DOMAIN reading'
                /\ args.loop => pc' = "loop"
                /\ last_value = EmptyDict =>
                      /\ Len(iter'.sent) = Len(iter'.offered)
                      /\ \A k \in 1 .. Len(iter'.sent) :
                            iter'.sent[k].topic = FullTopic("modbus", iter'.offered[k]) ]_vars

\* a completed cycle in which one read failed and another register was
\* still passed to the client
C19_Witness ==
    /\ pc = "loop"
    /\ obs.seq > 0
    /\ ~obs.error
    /\ obs.failed # {}
    /\ DOMAIN reading # {}
    /\ iter.offered # <<>>
    /\ Len(iter.sent) = Len(iter.offered)


C22_SolarmanApplied ==
    (/\ obs.done
     /\ obs.cfg.solarman_prefix # ""
     /\ obs.cfg.solarman_serial # ""
     /\ obs.reg.name \in DOMAIN SOLARMAN_NAME_MAP) =>
        obs.unique_id = obs.cfg.solarman_prefix \o "_" \o obs.cfg.solarman_serial \o "_"
                           \o SOLARMAN_NAME_MAP[obs.reg.name]

\* C22: the same for the sensors that have no legacy_unique_id of their
\* own.
C22_SolarmanAppliedWithoutLegacy ==
    (/\ obs.done
     /\ obs.reg.legacy_unique_id = ""
     /\ obs.cfg.solarman_prefix # ""
     /\ obs.cfg.solarman_serial # ""
     /\ obs.reg.name \in DOMAIN SOLARMAN_NAME_MAP) =>
        obs.unique_id = obs.cfg.solarman_prefix \o "_" \o obs.cfg.solarman_serial \o "_"
                           \o SOLARMAN_NAME_MAP[obs.reg.name]

\* total_production announced under its Solarman id
C22_Witness ==
    /\ obs.done
    /\ obs.reg.name = "total_production"
    /\ obs.unique_id = "deye_2957831690_Total Production"


(***************************************************************************)
(* Properties of the CAN decoder                                           *)
(***************************************************************************)
\* C23: for every recognised frame (0x351, 0x355, 0x370) in which a decoded
\* field lies outside its declared window the decoder hands no value to
\* the publisher, and for every frame whose fields are all inside their
\* windows every field is handed to the publisher.  The windows are, per
\* field: 0x351 pack voltage, current, current, pack voltage; 0x355 percent
\* twice; 0x370 temperature twice, cell voltage twice.
C23_SanityWindows ==
    obs.done =>
        LET f == obs.f
            inside ==
                CASE obs.arb = 849 ->
                        /\ PACK_V_MIN_V <= f[1] * 100 /\ f[1] * 100 <= PACK_V_MAX_V
                        /\ 0 <= f[2] * 100 /\ f[2] * 100 <= I_MAX_ABS_A
                        /\ 0 <= f[3] * 100 /\ f[3] * 100 <= I_MAX_ABS_A
                        /\ PACK_V_MIN_V <= f[4] * 100 /\ f[4] * 100 <= PACK_V_MAX_V
                  [] obs.arb = 853 ->
                        /\ 0 <= f[1] /\ f[1] <= 100
                        /\ 0 <= f[2] /\ f[2] <= 100
                  [] OTHER ->
                        /\ TEMP_MIN_C <= f[1] * 100 /\ f[1] * 100 <= TEMP_MAX_C
                        /\ TEMP_MIN_C <= f[2] * 100 /\ f[2] * 100 <= TEMP_MAX_C
                        /\ CELL_V_MIN_V <= f[3] /\ f[3] <= CELL_V_MAX_V
                        /\ CELL_V_MIN_V <= f[4] /\ f[4] <= CELL_V_MAX_V
            topics == {obs.calls[k].topic : k \in 1 .. Len(obs.calls)}
            all == CASE obs.arb = 849 -> {"limit/v_charge_max", "limit/v_low",
                                          "limit/i_charge", "limit/i_discharge"}
                     [] obs.arb = 853 -> {"soc", "soh"}
                     [] OTHER -> {"ext/cell_v_min", "ext/cell_v_max", "ext/cell_v_delta",
                                  "ext/temp_min", "ext/temp_max"}
        IN  IF inside THEN topics = all ELSE obs.calls = <<>>


\* C24: a 0x351 frame of eight zero bytes yields no publish and leaves the
\* publish cache unchanged; the 0x351 frame E6 01 2C 01 2C 01 F4 01, the
\* first with limits, publishes the four limit topics with 48.6, 50.0, 30.0
\* and 30.0.
C24_ZeroFrameThenLimits ==
    [][ Processed =>
          /\ msg = Frame(849, <<0, 0, 0, 0, 0, 0, 0, 0>>) =>
                /\ iter'.offered = <<>>
                /\ iter'.sent = <<>>
                /\ last_value' = last_value
                /\ last_ts' = last_ts
          /\ (/\ msg = Frame(849, <<230, 1, 44, 1, 44, 1, 244, 1>>)
              /\ \A k \in DOMAIN last_value :
                    k \notin {"deye_bms/limit/v_charge_max", "deye_bms/limit/v_low",
                              "deye_bms/limit/i_charge", "deye_bms/limit/i_discharge"}) =>
                iter'.sent =
                    << [topic |-> "deye_bms/limit/v_charge_max", payload |-> "48.6",
                        retain |-> TRUE],
                       [topic |-> "deye_bms/limit/v_low", payload |-> "50.0",
                        retain |-> TRUE],
                       [topic |-> "deye_bms/limit/i_charge", payload |-> "30.0",
                        retain |-> FALSE],
                       [topic |-> "deye_bms/limit/i_discharge", payload |-> "30.0",
                        retain |-> FALSE] >> ]_vars

\* the limits frame has been processed and its four values accepted
C24_Witness ==
    /\ pc = "recv"
    /\ Len(iter.sent) = 4
    /\ iter.sent[1].payload = "48.6"
    /\ ~iter.raised
    /\ "deye_bms/limit/i_discharge" \in DOMAIN last_value
    /\ "deye_bms/soc" \notin DOMAIN last_value


(***************************************************************************)
(* Properties of the Pylontech frame codec                                 *)
(***************************************************************************)
\* C25: parsing the frame built by make_command recovers the original
\* (addr, cid2, info), for every INFO string including the empty one, and
\* the frame's CHKSUM is (-sum of the ASCII bytes of the frame body) mod
\* 2^16, so that body sum plus CHKSUM is 0 mod 2^16.
C25_FrameRoundTrip ==
    obs.stage = "parsed" =>
        LET body == SubSeq(obs.frame, 2, Len(obs.frame) - 5)
            chk == SubSeq(obs.frame, Len(obs.frame) - 4, Len(obs.frame) - 1)
        IN  /\ obs.req.some
            /\ obs.req.addr = obs.addr
            /\ obs.req.cid2 = obs.cid2
            /\ obs.req.info = obs.info
            /\ Len(chk) = 4
            /\ (SumOrd(body) + IntHex(chk)) % 65536 = 0
            /\ obs.req.chksum = chk

\* C26: for every INFO length 0..4095 the LENID the frame builders generate
\* has four digits, its three length nibbles parse back to the length, its
\* checksum nibble is (-sum of the three length nibbles) mod 16, and the
\* four nibbles sum to 0 mod 16; the builder of rs485_simple.py generates
\* the same LENID.
C26_LenIdChecksum ==
    (obs.done /\ obs.info_len <= 4095) =>
        /\ Len(obs.lenid) = 4
        /\ IntHex(SubSeq(obs.lenid, 2, 4)) = obs.info_len
        /\ HexVal(obs.lenid[1]) =
              (16 - ((HexVal(obs.lenid[2]) + HexVal(obs.lenid[3]) + HexVal(obs.lenid[4])) % 16))
                 % 16
        /\ (HexVal(obs.lenid[1]) + HexVal(obs.lenid[2]) + HexVal(obs.lenid[3])
              + HexVal(obs.lenid[4])) % 16 = 0
        /\ obs.simple = obs.lenid

\* the longest INFO: LENID is 3FFF
C26_Witness ==
    /\ obs.done
    /\ obs.info_len = 4095
    /\ obs.lenid = << "3", "F", "F", "F" >>


(***************************************************************************)
(* Properties of the RS485 decoders                                        *)
(***************************************************************************)
\* C27: for every alarm-info INFO string the decoder's warnings and
\* protections share no element, and alarms is exactly a copy of
\* protections and contains no warning.
C27_SeverityDisjoint ==
    obs.done =>
        LET r == obs.result
            elems(l) == {l[k] : k \in 1 .. Len(l)}
        IN  /\ elems(r.warnings) \cap elems(r.protections) = {}
            /\ r.alarms = r.protections
            /\ elems(r.alarms) \cap elems(r.warnings) = {}

\* all voltage flags set together with an overcurrent and a pack
\* under-voltage: six warnings, four protections
C27_Witness ==
    /\ obs.done
    /\ Len(obs.data_hex) = 28
    /\ Len(obs.result.warnings) = 6
    /\ obs.result.alarms = << "charge_overcurrent", "pack_undervolt",
                              "cell_undervolt_protect", "pack_undervolt_protect" >>

(***************************************************************************)
(* Properties of the RS485 stack summary                                   *)
(***************************************************************************)
\* C28: over the modules that answered, the stack cell_min/cell_max are the
\* min/max of all modules' cells, the stack current is the sum of the
\* module currents, the stack voltage is exactly the arithmetic mean of the
\* module voltages, balancing_count is the total number of balancing cells
\* and the number of B{module}C{cell} tokens, and alarms is the union of
\* the modules' alarms.
C28_StackAggregation ==
    (obs.done /\ obs.batteries # <<>>) =>
        LET b == obs.batteries
            n == Len(b)
            cellsOf(k) == {b[k].cells[j] : j \in 1 .. Len(b[k].cells)}
            cells == UNION {cellsOf(k) : k \in 1 .. n}
        IN  /\ \A x \in cells : obs.stack.cell_min <= x /\ x <= obs.stack.cell_max
            /\ obs.stack.cell_min \in cells /\ obs.stack.cell_max \in cells
            /\ obs.stack.current = SeqSum([k \in 1 .. n |-> b[k].current])
            /\ obs.stack.voltage * n = SeqSum([k \in 1 .. n |-> b[k].voltage])
            /\ obs.stack.balancing_count = SeqSum([k \in 1 .. n |-> b[k].balancing_count])
            /\ obs.stack.balancing_count = Len(obs.stack.balancing_cells)
            /\ obs.stack.alarms =
                 UNION {{b[k].alarms[j] : j \in 1 .. Len(b[k].alarms)} : k \in 1 .. n}

\* C28 (amended): the same, with the stack voltage being the mean of the
\* module voltages rounded to two decimals (within half of 0.01 V of it).
C28_StackAggregationRounded ==
    (obs.done /\ obs.batteries # <<>>) =>
        LET b == obs.batteries
            n == Len(b)
            cellsOf(k) == {b[k].cells[j] : j \in 1 .. Len(b[k].cells)}
            cells == UNION {cellsOf(k) : k \in 1 .. n}
        IN  /\ \A x \in cells : obs.stack.cell_min <= x /\ x <= obs.stack.cell_max
            /\ obs.stack.cell_min \in cells /\ obs.stack.cell_max \in cells
            /\ obs.stack.current = SeqSum([k \in 1 .. n |-> b[k].current])
            /\ obs.stack.voltage % 10 = 0
            /\ 2 * AbsDiff(obs.stack.voltage * n,
                           SeqSum([k \in 1 .. n |-> b[k].voltage])) <= 10 * n
            /\ obs.stack.balancing_count = SeqSum([k \in 1 .. n |-> b[k].balancing_count])
            /\ obs.stack.balancing_count = Len(obs.stack.balancing_cells)
            /\ obs.stack.alarms =
                 UNION {{b[k].alarms[j] : j \in 1 .. Len(b[k].alarms)} : k \in 1 .. n}

\* modules 0 and 2 answered with 53.60 V and 53.61 V, module 1 did not: the
\* mean 53.605 V is published as 53.61 V, with three balancing cells and two
\* alarms
C28_Witness ==
    /\ obs.done
    /\ Len(obs.batteries) = 2
    /\ obs.batteries[1].voltage = 53600 /\ obs.batteries[2].voltage = 53610
    /\ obs.batteries[2].id = 2
    /\ obs.stack.voltage = 53610
    /\ obs.stack.current = -1510
    /\ obs.stack.cell_min = 3340 /\ obs.stack.cell_max = 3372
    /\ obs.stack.balancing_cells = << "B0C2", "B2C1", "B2C2" >>
    /\ Cardinality(obs.stack.alarms) = 2

(***************************************************************************)
(* Properties of the retry after a broker failure                          *)
(***************************************************************************)
\* C29: the call that follows a call in which client.publish raised, for
\* the same topic and with the same value, hands the value to client.publish
\* again, at the same or any later clock reading: neither the rate limit
\* nor the comparison with the stored value suppresses it.
C29_RetryOnNextCall ==
    obs.retried => obs.attempted

\* a value other than the stored one was refused by the broker, and the
\* same value offered at a later clock reading was accepted
C29_Witness ==
    /\ obs.retried /\ ev.attempted /\ ev.ok /\ ev.ret
    /\ now > Epoch
    /\ broker[EvKey].ts = now
    /\ stream.mi = MIN_INTERVAL_S_SOC
    /\ stream.hyst.some

(***************************************************************************)
(* Properties of the CAN heartbeat                                         *)
(***************************************************************************)
\* C30: while the CAN bridge is running and not stale, the retained
\* "online" heartbeat is published at least once per heartbeat period,
\* whatever the bus delivers: a bridge that is not stale and has been in
\* its loop for more than a heartbeat period and one bus.recv timeout has
\* published a heartbeat (last_heartbeat starts at 0.0, so the first one is
\* due in the first iteration).
C30_HeartbeatEachPeriod ==
    (/\ pc = "recv" /\ bus = "open"
     /\ ~IsStale(now, last_can_rx) /\ ~was_stale
     /\ now - Epoch > heartbeat_period + RecvTimeout)
        => last_heartbeat # 0


(***************************************************************************)
(* Properties of a shutdown during the loop body                           *)
(***************************************************************************)
\* C31: when the shutdown signal ends the CAN bridge during a cycle, the
\* Reading in flight is handed to the publisher whole or not at all: at
\* exit either none or all of the frame's topics have been passed to
\* pub.publish.
C31_NoPartialReading ==
    pc = "exit" => (obs.k = 0 \/ obs.k = Len(obs.calls))


(***************************************************************************)
(* Properties of the CAN bus reconnect                                     *)
(***************************************************************************)
\* C32: when bus.recv raises CanError the bus handle is closed and
\* connect_can_bus is entered; the loop reads only from an open handle; the
\* publish cache, last_can_rx and was_stale are the same after the error,
\* during the retries and after the reconnect.
C32_ReconnectKeepsState ==
    [][ /\ (pc = "recv" /\ pc' = "connect") => bus' = "closed"
        /\ (pc = "connect" /\ Started /\ pc' = "recv") => bus' = "open"
        /\ pc' \in {"recv", "got"} => bus' = "open"
        /\ ((pc = "recv" /\ pc' = "connect") \/ (pc = "connect" /\ Started /\ pc' # "exit"))
              => /\ last_value' = last_value /\ last_ts' = last_ts
                 /\ last_can_rx' = last_can_rx /\ was_stale' = was_stale ]_vars

\* a bus error while the bridge is stale and has values in its cache: the
\* handle is closed, the bridge retries, and the state is still there
C32_Witness ==
    /\ pc = "connect" /\ bus = "closed"
    /\ was_stale
    /\ now - last_can_rx > CAN_STALE_TIMEOUT_S
    /\ "deye_bms/soc" \in DOMAIN last_value


(***************************************************************************)
(* Properties of one RS485 cycle                                           *)
(***************************************************************************)
\* C33: a module whose analog response is missing, shorter than 18
\* characters or carries an RTN other than 00 gets no battery record and
\* adds nothing to the stack values; the other modules are read in the
\* same cycle: the records are exactly those of the modules with a
\* complete response, with the cells and current of that response, and the
\* stack values are those of these modules alone.
C33_FailedModuleSkipped ==
    obs.done =>
        LET good == {k \in 1 .. NUM_BATTERIES : obs.answers[k].analog.kind \in {"a", "b"}}
            b == obs.batteries
            cellsOf(kind) == IF kind = "a" THEN << 3350, 3360 >> ELSE << 3340, 3372 >>
            currentOf(kind) == IF kind = "a" THEN 2500 ELSE -1510
            ofId(id) == obs.answers[id + 1].analog.kind
        IN  /\ {b[j].id + 1 : j \in 1 .. Len(b)} = good
            /\ Len(b) = Cardinality(good)
            /\ \A j \in 1 .. Len(b) :
                  /\ b[j].cells = cellsOf(ofId(b[j].id))
                  /\ b[j].current = currentOf(ofId(b[j].id))
            /\ good # {} =>
                  /\ obs.stack.num_batteries = Cardinality(good)
                  /\ obs.stack.cell_min =
                        (IF \E k \in good : obs.answers[k].analog.kind = "b" THEN 3340 ELSE 3350)
                  /\ obs.stack.cell_max =
                        (IF \E k \in good : obs.answers[k].analog.kind = "b" THEN 3372 ELSE 3360)
                  /\ obs.stack.current =
                        2500 * Cardinality({k \in good : obs.answers[k].analog.kind = "a"})
                        - 1510 * Cardinality({k \in good : obs.answers[k].analog.kind = "b"})
            /\ good = {} => obs.stack = NoStack

\* module 0 answers with RTN 02, module 1 with a cut frame, module 2 with a
\* complete frame and its alarm answer: one record, of module 2
C33_Witness ==
    /\ obs.done
    /\ obs.answers[1].analog.kind = "rtn"
    /\ obs.answers[2].analog.kind = "short"
    /\ obs.answers[3].analog.kind = "b"
    /\ Len(obs.batteries) = 1
    /\ obs.batteries[1].id = 2
    /\ obs.batteries[1].balancing_cells = << 1, 2 >>
    /\ obs.stack.cell_min = 3340
    /\ obs.stack.alarms = {"pack_undervolt"}


(***************************************************************************)
(* Properties of the responder's frames                                    *)
(***************************************************************************)
\* C34: the frame the responder builds for an analog request with RTN 0 is
\* accepted by the monitor's send_command, the INFO taken from character
\* index 13 is the INFO the responder encoded, and decode_analog_response
\* gives the simulated module: 16 cells, 4 temperatures of 25.0 C, current,
\* remaining and total capacity, cycles.
C34_SimulatorRoundTrip ==
    obs.stage = "received" =>
        /\ obs.data_hex.some
        /\ obs.data_hex.info = SimAnalogInfo(obs.batt_num)
        /\ Len(obs.data.cells) = 16
        /\ \A i \in 1 .. 16 : obs.data.cells[i] = 3350 + ((i - 1) % 3) * 5 - 5
        /\ obs.data.temps = << 25000, 25000, 25000, 25000 >>
        /\ obs.data.current = 0
        /\ obs.data.remain_ah = 80000
        /\ obs.data.total_ah = 100000
        /\ obs.data.cycles = 50


(***************************************************************************)
(* Properties of the RS485 decoders on cut responses                       *)
(***************************************************************************)
\* C35: for every prefix of a well-formed analog or alarm INFO, every field
\* the decoder returns is the value the complete INFO decodes to, or for a
\* list (and the header string) a prefix of it.
C35_TruncationTolerant ==
    obs.done =>
        LET IsPrefix(a, b) == Len(a) <= Len(b) /\ SubSeq(b, 1, Len(a)) = a
            p == obs.part
            w == obs.whole
        IN  IF obs.kind = "analog"
            THEN /\ p.keys \subseteq w.keys
                 /\ IsPrefix(p.header, w.header)
                 /\ IsPrefix(p.cells, w.cells)
                 /\ IsPrefix(p.temps, w.temps)
                 /\ "current" \in p.keys => p.current = w.current
                 /\ "voltage" \in p.keys => p.voltage = w.voltage
                 /\ "remain_ah" \in p.keys => p.remain_ah = w.remain_ah
                 /\ "total_ah" \in p.keys => p.total_ah = w.total_ah
                 /\ "cycles" \in p.keys => p.cycles = w.cycles
            ELSE /\ IsPrefix(p.warnings, w.warnings)
                 /\ IsPrefix(p.protections, w.protections)
                 /\ IsPrefix(p.alarms, w.alarms)
                 /\ IsPrefix(p.balancing_cells, w.balancing_cells)
                 /\ p.balance_on => w.balance_on
                 /\ p.has_state => (w.has_state /\ p.state_raw = w.state_raw)


\* C36: the decoder reports balancing cells only when bit 0 of extended
\* status byte 0 (balance-on) is set; with the bit clear the list is empty
\* whatever the per-cell balance bytes hold.
C36_BalanceOnGates ==
    obs.done =>
        /\ obs.result.balancing_cells # <<>> => obs.balance_status % 2 = 1
        /\ obs.balance_status % 2 = 0 => obs.result.balancing_cells = <<>>

\* static balance without balance-on, all sixteen per-cell flags set, the
\* INFO complete: no balancing cell is reported
C36_Witness ==
    /\ obs.done
    /\ Len(obs.data_hex) = 42
    /\ obs.balance_status = 254
    /\ obs.balance1_8 = 255 /\ obs.balance9_16 = 255
    /\ obs.result.has_state
    /\ obs.result.balancing_cells = <<>>


\* C37: in the CAN main loop last_can_rx is set to the time of the iteration
\* by every frame of exactly 8 data bytes, whatever its arbitration id and
\* whatever the sanity windows say, and no other step of the running bridge
\* changes it; such a frame leaves was_stale clear and, when the bridge was
\* stale, publishes 'online'.
C37_StaleTimerReset ==
    [][ LET frame8 == msg.some /\ Len(msg.data) = 8
            body == pc = "got" /\ pc' = "recv"
        IN  /\ (body /\ frame8) =>
                  /\ last_can_rx' = now
                  /\ ~was_stale'
                  /\ (was_stale \/ now - last_can_rx > CAN_STALE_TIMEOUT_S) =>
                        \E i \in DOMAIN iter'.avail : iter'.avail[i] = Online
            /\ (Started /\ ~(body /\ frame8)) => last_can_rx' = last_can_rx
      ]_vars

\* a frame that offers no reading (unknown id, or rejected by the sanity
\* windows) arrived when the stale timeout had just passed: the iteration
\* published 'offline' and then 'online', and the stale timer restarted
C37_Witness ==
    /\ pc = "recv"
    /\ Len(iter.avail) >= 2
    /\ iter.avail[1] = Offline
    /\ iter.avail[2] = Online
    /\ iter.offered = <<>>
    /\ last_can_rx = now
    /\ ~was_stale


\* C38: an iteration of the CAN main loop publishes 'online' only when the
\* time since the last valid frame does not exceed the stale timeout or a
\* frame of 8 data bytes was just received, and an iteration that emits the
\* heartbeat 'online' has was_stale clear.
C38_OnlineOnlyWhenFresh ==
    [][ (pc = "got" /\ pc' = "recv") =>
            /\ (\E i \in DOMAIN iter'.avail : iter'.avail[i] = Online) =>
                  \/ now - last_can_rx <= CAN_STALE_TIMEOUT_S
                  \/ msg.some /\ Len(msg.data) = 8
            /\ last_heartbeat' # last_heartbeat => ~was_stale'
      ]_vars

\* the stale timeout passed with the heartbeat due and no frame: the
\* iteration published 'offline' only and kept the heartbeat back
C38_Witness ==
    /\ pc = "recv"
    /\ was_stale
    /\ now - last_can_rx > CAN_STALE_TIMEOUT_S
    /\ now - last_heartbeat >= heartbeat_period
    /\ iter.avail = <<Offline>>
    /\ availSent = Offline


\* C39: whenever the stale check of the CAN main loop publishes 'offline'
\* after having published it before, a frame of 8 data bytes and a recovery
\* 'online' came since the earlier publication.
C39_OfflineOncePerEpisode == obs.gap_ok

\* the stale check has published 'offline' for the second time, and the
\* bridge stays stale in a further iteration without another 'offline'
C39_Witness ==
    /\ obs.offlines = 2
    /\ obs.gap_ok
    /\ was_stale
    /\ pc = "recv"
    /\ iter.avail = <<>>


\* C40: a publish call that returns False changes no entry of last_value
\* or last_ts; a call that returns True changes only the entries of its own
\* full topic; last_value and last_ts keep the same key set and no key is
\* ever removed.
C40_PublisherFrame ==
    [][ LET ft == FullTopic(variant, ev'.topic)
        IN  /\ DOMAIN last_value' = DOMAIN last_ts'
            /\ DOMAIN last_value \subseteq DOMAIN last_value'
            /\ \A k \in DOMAIN last_value' :
                  \/ /\ k \in DOMAIN last_value
                     /\ k \in DOMAIN last_ts
                     /\ last_value'[k] = last_value[k]
                     /\ last_ts'[k] = last_ts[k]
                  \/ ev'.ret /\ k = ft
      ]_vars

\* a call has just published on its topic while the cache holds an older
\* entry of another topic
C40_Witness ==
    /\ ev.ret
    /\ FullTopic(variant, ev.topic) \in DOMAIN last_ts
    /\ last_ts[FullTopic(variant, ev.topic)] = now
    /\ \E k \in DOMAIN last_ts : k # FullTopic(variant, ev.topic) /\ last_ts[k] < now
    /\ DOMAIN last_value = DOMAIN last_ts

====
